---- MODULE Spec2Model ----
(***************************************************************************)
(* Model of the hybrid data layer of Nexus (src/services/storage.ts):      *)
(* the exported facade `db`, the simulated store `mockDb` over             *)
(* localStorage + BroadcastChannel, and the Firestore calls `db` makes.    *)
(*                                                                         *)
(* A context is one browser tab: it has its own module instance (its own   *)
(* `useMock`, its own `nexusChannel` object and listeners).  localStorage  *)
(* and the Firestore database are shared by all contexts.                  *)
(***************************************************************************)
EXTENDS Integers, Sequences, FiniteSets, TLC

VARIABLES
    apiKey,    \* import.meta.env.VITE_FIREBASE_API_KEY of the build
    useMock,   \* [loaded tabs -> BOOLEAN]   storage.ts:40  `let useMock`
    local,     \* localStorage `mock_<key>`   storage.ts:66-72
    remote,    \* the Firestore collections   storage.ts:38  `firestore`
    calls,     \* [Ctx -> set of facade calls awaiting a Firestore promise]
    subs,      \* [Ctx -> [SubIds -> subscription]]
    inbox,     \* [Ctx -> Seq(message events queued for the tab's nexusChannel)]
    ret,       \* [Ctx -> what the caller of the last finished facade call saw]
    hist,      \* observations used only to state properties
    focus      \* the part of the application a behaviour exercises

vars == <<apiKey, useMock, local, remote, calls, subs, inbox, ret, hist, focus>>

(***************************************************************************)
(* Bounds                                                                  *)
(***************************************************************************)
MaxCalls == 2     \* facade calls of one tab awaiting Firestore at a time
MaxArr   == 2     \* length of a localStorage collection
MaxInbox == 2     \* message events queued for one tab

Ctx     == {"t1", "t2"}
SubIds  == {"s1"}
UserIds == {"a", "b"}
MsgIds  == {"m1", "m2"}
BothReqIds == {"r1", "r2"}
\* FriendRequest.status values handleFriendRequest is called with
Statuses == {"accepted", "rejected"}
\* Message.timestamp values
Times == {1, 2}
\* The two directions between users a and b.
BothWays == {<<"a", "b">>, <<"b", "a">>}

NoUser  == "none"                       \* JS null in User.typingTo
None    == <<>>                         \* JS null / absent result
Some(x) == <<x>>

(***************************************************************************)
(* Small helpers standing for JS built-ins                                 *)
(***************************************************************************)
\* Array.prototype.findIndex, 1-based; 0 stands for -1.
RECURSIVE FindFrom(_, _, _, _)
FindFrom(arr, field, v, i) ==
    IF i > Len(arr) THEN 0
    ELSE IF arr[i][field] = v THEN i
    ELSE FindFrom(arr, field, v, i + 1)

FindIndex(arr, field, v) == FindFrom(arr, field, v, 1)

\* Array.prototype.filter
Filter(arr, Keep(_)) == SelectSeq(arr, Keep)

\* The elements of an array.
Range(arr) == {arr[i] : i \in 1..Len(arr)}

\* Array.prototype.push
Push(arr, x) == Append(arr, x)

\* String.prototype.toLowerCase on the usernames of the model
ToLowerCase(s) ==
    CASE s = "AL" -> "al"
      [] s = "Al" -> "al"
      [] s = "BO" -> "bo"
      [] OTHER    -> s

\* The order of strings (Array.prototype.sort(), Firestore's order of document
\* ids) on the ids of the model.
Rank(id) ==
    CASE id \in {"a", "m1", "r1"} -> 1
      [] id \in {"b", "m2", "r2"} -> 2
      [] OTHER -> 3

\* Mutant: fields the record already has keep their values.
MergeKeepsOld(o, updates) ==
    [f \in (DOMAIN o) \cup (DOMAIN updates) |->
        IF f \in DOMAIN o THEN o[f] ELSE updates[f]]

\* { ...o, ...updates }
Merge(o, updates) ==
    [f \in (DOMAIN o) \cup (DOMAIN updates) |->
        IF f \in DOMAIN updates THEN updates[f] ELSE o[f]]

\* Firestore `doc.exists()` / documents of a collection, by ascending id.
Exists(coll, id) == id \in DOMAIN coll

\* setDoc without merge: the document is created or wholly replaced.
SetDoc(coll, id, data) ==
    [k \in (DOMAIN coll) \cup {id} |-> IF k = id THEN data ELSE coll[k]]

\* updateDoc: merge-patch of an existing document.
UpdateDoc(coll, id, fields) ==
    [coll EXCEPT ![id] = Merge(coll[id], fields)]

(***************************************************************************)
(* mockStore / mockDb (storage.ts:66-193), as functions of the array read  *)
(* from localStorage.  Each yields the arrays to store and the events it   *)
(* posts on nexusChannel, in program order.                                *)
(***************************************************************************)
SyncMsg(key)       == [type |-> "sync", key |-> key]
UserUpdateMsg(uid) == [type |-> "user_update", key |-> uid]
NewMsgMsg          == [type |-> "new_msg", key |-> "-"]

\* Mutant: mockStore.set posts the event before it stores the array.
SetOrderPostFirst == <<"postMessage", "setItem">>

\* The two statements of mockStore.set, in program order.
SetOrder == <<"setItem", "postMessage">>

\* mockStore.set(key, data): setItem, then postMessage({type:'sync', key}).
StoreSet(r, key, data) ==
    [r EXCEPT !.store = [r.store EXCEPT ![key] = data],
              !.posts = Append(r.posts, SyncMsg(key))]

Start(store) == [store |-> store, posts |-> <<>>, value |-> None]

MockGetUser(store, id) ==
    LET i == FindIndex(store.users, "id", id)
    IN  IF i > 0 THEN Some(store.users[i]) ELSE None

MockGetUserByUsername(store, username) ==
    LET hits == Filter(store.users,
                       LAMBDA u : ToLowerCase(u.username) = ToLowerCase(username))
    IN  IF hits # <<>> THEN Some(hits[1]) ELSE None

\* Mutant: saveUser always appends, leaving the older record first.
MockSaveUserAlwaysPushes(store, user) ==
    StoreSet([store |-> store, posts |-> <<>>, value |-> <<>>], "users",
             Append(store.users, user))

MockSaveUser(store, user) ==
    LET users == store.users
        idx   == FindIndex(users, "id", user.id)
    IN  StoreSet(Start(store), "users",
                 IF idx > 0 THEN [users EXCEPT ![idx] = user]
                 ELSE Push(users, user))

MockUpdateUserStatus(store, userId, updates) ==
    LET users == store.users
        idx   == FindIndex(users, "id", userId)
    IN  IF idx > 0
        THEN LET r == StoreSet(Start(store), "users",
                               [users EXCEPT ![idx] = Merge(users[idx], updates)])
             IN  [r EXCEPT !.posts = Append(r.posts, UserUpdateMsg(userId))]
        ELSE Start(store)

MockSendMessage(store, msg) ==
    LET r == StoreSet(Start(store), "messages", Push(store.messages, msg))
    IN  [r EXCEPT !.posts = Append(r.posts, NewMsgMsg)]

\* Mutant: every message of the sender to the user has its flag flipped.
MockMarkMessagesAsReadFlips(store, userId, senderId) ==
    LET msgs    == store.messages
        Hit(m)  == m.receiverId = userId /\ m.senderId = senderId
        changed == \E i \in 1..Len(msgs) : Hit(msgs[i])
        marked  == [i \in 1..Len(msgs) |->
                      IF Hit(msgs[i]) THEN [msgs[i] EXCEPT !.isRead = ~@]
                      ELSE msgs[i]]
    IN  IF changed THEN StoreSet(Start(store), "messages", marked)
        ELSE Start(store)

MockMarkMessagesAsRead(store, userId, senderId) ==
    LET msgs    == store.messages
        Hit(m)  == m.receiverId = userId /\ m.senderId = senderId /\ ~m.isRead
        changed == \E i \in 1..Len(msgs) : Hit(msgs[i])
        marked  == [i \in 1..Len(msgs) |->
                      IF Hit(msgs[i]) THEN [msgs[i] EXCEPT !.isRead = TRUE]
                      ELSE msgs[i]]
    IN  IF changed THEN StoreSet(Start(store), "messages", marked)
        ELSE Start(store)

MockSendFriendRequest(store, req) ==
    StoreSet(Start(store), "requests", Push(store.requests, req))

\* Array.prototype.join('_') of a two-element array
Join(x, y) == x \o "_" \o y

\* Mutant: the member ids are joined as the request has them.
FriendshipIdUnsorted(x, y) == Join(x, y)

\* [req.fromId, req.toId].sort().join('_')
FriendshipId(x, y) == IF Rank(x) <= Rank(y) THEN Join(x, y) ELSE Join(y, x)

\* The record pushed on acceptance (createdAt: Date.now() is left out).
NewFriendship(req) ==
    [id |-> FriendshipId(req.fromId, req.toId),
     user1Id |-> req.fromId, user2Id |-> req.toId]

\* Mutant: an unknown request id is not returned early; acceptance pushes a
\* friendship without members.
MockHandleFriendRequestNoReturn(store, requestId, status) ==
    LET reqs == store.requests
        idx  == FindIndex(reqs, "id", requestId)
        r1   == StoreSet(Start(store), "requests",
                         IF idx = 0 THEN reqs ELSE [reqs EXCEPT ![idx].status = status])
        req  == IF idx = 0 THEN [fromId |-> "-", toId |-> "-"] ELSE reqs[idx]
    IN  IF status = "accepted"
        THEN StoreSet(r1, "friendships", Push(r1.store.friendships, NewFriendship(req)))
        ELSE r1

\* Mutant: the friendship is pushed whatever the status.
MockHandleFriendRequestBefriends(store, requestId, status) ==
    LET reqs == store.requests
        idx  == FindIndex(reqs, "id", requestId)
    IN  IF idx = 0 THEN Start(store)
        ELSE LET r1 == StoreSet(Start(store), "requests",
                                [reqs EXCEPT ![idx].status = status])
             IN  StoreSet(r1, "friendships",
                          Push(r1.store.friendships, NewFriendship(reqs[idx])))

MockHandleFriendRequest(store, requestId, status) ==
    LET reqs == store.requests
        idx  == FindIndex(reqs, "id", requestId)
    IN  IF idx = 0 THEN Start(store)
        ELSE LET r1 == StoreSet(Start(store), "requests",
                                [reqs EXCEPT ![idx].status = status])
             IN  IF status = "accepted"
                 THEN StoreSet(r1, "friendships",
                               Push(r1.store.friendships, NewFriendship(reqs[idx])))
                 ELSE r1

\* The mockDb method a facade call dispatches to.
MockRun(store, op, arg) ==
    CASE op = "getUser" ->
            [Start(store) EXCEPT !.value = MockGetUser(store, arg.id)]
      [] op = "getUserByUsername" ->
            [Start(store) EXCEPT !.value = MockGetUserByUsername(store, arg.username)]
      [] op = "saveUser"           -> MockSaveUser(store, arg.user)
      [] op = "updateUserStatus"   -> MockUpdateUserStatus(store, arg.userId, arg.updates)
      [] op = "sendMessage"        -> MockSendMessage(store, arg.msg)
      [] op = "markMessagesAsRead" -> MockMarkMessagesAsRead(store, arg.userId, arg.senderId)
      [] op = "sendFriendRequest"  -> MockSendFriendRequest(store, arg.req)
      [] op = "handleFriendRequest" ->
            MockHandleFriendRequest(store, arg.requestId, arg.status)

(***************************************************************************)
(* The Firestore side of each facade method (storage.ts:199-347).  A call  *)
(* in flight is [op, arg, pc, tmp]: pc counts the awaits already passed,   *)
(* tmp holds what the earlier awaits returned.                             *)
(***************************************************************************)
NewCall(op, arg) == [op |-> op, arg |-> arg, pc |-> 0, tmp |-> <<>>]

\* The documents of a collection that satisfy a filter, as a set of ids.
Docs(coll, Match(_)) == {id \in DOMAIN coll : Match(coll[id])}

\* snap.docs[0]: Firestore orders a query's documents by document id.
FirstDoc(coll, ids) == coll[CHOOSE id \in ids : \A o \in ids : Rank(id) <= Rank(o)]

\* writeBatch: batch.update(d.ref, {isRead: true}) for every d, one commit.
BatchMarkRead(coll, ids) ==
    [id \in DOMAIN coll |->
        IF id \in ids THEN Merge(coll[id], [isRead |-> TRUE]) ELSE coll[id]]

Finished(rem, value) == [remote |-> rem, next |-> None, value |-> value]
Awaiting(rem, k)     == [remote |-> rem, next |-> Some(k), value |-> None]

\* updateDoc rejects with not-found when the document does not exist.
RemoteCanSucceed(rem, k) ==
    k.op = "updateUserStatus" => Exists(rem.users, k.arg.userId)

\* The awaited Firestore promise of call k resolves: run to the next await.
RemoteResolve(rem, k) ==
    CASE k.op = "getUser" ->
            Finished(rem, IF Exists(rem.users, k.arg.id)
                          THEN Some(rem.users[k.arg.id]) ELSE None)
      [] k.op = "getUserByUsername" ->
            LET ids == Docs(rem.users, LAMBDA u : u.username = k.arg.username)
            IN  Finished(rem, IF ids = {} THEN None
                              ELSE Some(FirstDoc(rem.users, ids)))
      [] k.op = "saveUser" ->
            Finished([rem EXCEPT !.users = SetDoc(@, k.arg.user.id, k.arg.user)], None)
      [] k.op = "updateUserStatus" ->
            Finished([rem EXCEPT !.users = UpdateDoc(@, k.arg.userId, k.arg.updates)],
                     None)
      [] k.op = "sendMessage" ->
            Finished([rem EXCEPT !.messages = SetDoc(@, k.arg.msg.id, k.arg.msg)], None)
      [] k.op = "markMessagesAsRead" ->
            IF k.pc = 0
            THEN Awaiting(rem, [k EXCEPT !.pc = 1, !.tmp =
                    Docs(rem.messages, LAMBDA m : /\ m.receiverId = k.arg.userId
                                                  /\ m.senderId = k.arg.senderId
                                                  /\ m.isRead = FALSE)])
            ELSE Finished([rem EXCEPT !.messages = BatchMarkRead(@, k.tmp)], None)
      [] k.op = "sendFriendRequest" ->
            Finished([rem EXCEPT !.requests = SetDoc(@, k.arg.req.id, k.arg.req)], None)
      [] k.op = "handleFriendRequest" ->
            CASE k.pc = 0 ->
                    IF ~Exists(rem.requests, k.arg.requestId) THEN Finished(rem, None)
                    ELSE Awaiting(rem, [k EXCEPT !.pc = 1,
                                          !.tmp = rem.requests[k.arg.requestId]])
              [] k.pc = 1 ->
                    LET r2 == [rem EXCEPT !.requests =
                                 UpdateDoc(@, k.arg.requestId, [status |-> k.arg.status])]
                    IN  IF k.arg.status = "accepted"
                        THEN Awaiting(r2, [k EXCEPT !.pc = 2])
                        ELSE Finished(r2, None)
              [] OTHER ->
                    LET f == NewFriendship(k.tmp)
                    IN  Finished([rem EXCEPT !.friendships = SetDoc(@, f.id, f)], None)

(***************************************************************************)
(* What a subscription's callback is given.                                *)
(***************************************************************************)
\* Array.prototype.sort((a, b) => a.timestamp - b.timestamp): stable.
RECURSIVE InsertByTimestamp(_, _)
InsertByTimestamp(sorted, m) ==
    IF sorted = <<>> THEN <<m>>
    ELSE IF m.timestamp < Head(sorted).timestamp THEN <<m>> \o sorted
    ELSE <<Head(sorted)>> \o InsertByTimestamp(Tail(sorted), m)

RECURSIVE SortByTimestamp(_)
SortByTimestamp(arr) ==
    IF arr = <<>> THEN <<>>
    ELSE InsertByTimestamp(SortByTimestamp(SubSeq(arr, 1, Len(arr) - 1)), arr[Len(arr)])

\* Mutant: the filter keeps every message the user sent or received.
InConversationAnyFriend(m, userId, friendId) ==
    m.senderId = userId \/ m.receiverId = userId

InConversation(m, userId, friendId) ==
    \/ m.senderId = userId /\ m.receiverId = friendId
    \/ m.senderId = friendId /\ m.receiverId = userId

\* Mutant: refresh() matches the user in the first member slot only.
MockFriendsViewFirstSlot(store, userId) ==
    LET mine      == Filter(store.friendships, LAMBDA f : f.user1Id = userId)
        friendIds == {mine[i].user2Id : i \in 1..Len(mine)}
    IN  Filter(store.users, LAMBDA u : u.id \in friendIds)

\* refresh() of mockDb.subscribeToFriends
MockFriendsView(store, userId) ==
    LET mine      == Filter(store.friendships,
                            LAMBDA f : f.user1Id = userId \/ f.user2Id = userId)
        friendIds == {IF mine[i].user1Id = userId THEN mine[i].user2Id
                      ELSE mine[i].user1Id : i \in 1..Len(mine)}
    IN  Filter(store.users, LAMBDA u : u.id \in friendIds)

\* Mutant: refresh() filters the conversation and leaves the stored order.
MockMessagesViewUnsorted(store, userId, friendId) ==
    Filter(store.messages, LAMBDA m : InConversation(m, userId, friendId))

\* refresh() of mockDb.subscribeToMessages
MockMessagesView(store, userId, friendId) ==
    SortByTimestamp(Filter(store.messages,
                           LAMBDA m : InConversation(m, userId, friendId)))

\* Mutant: refresh() keeps the requests addressed to the user whatever their
\* status.
MockRequestsViewAnyStatus(store, userId) ==
    Filter(store.requests, LAMBDA r : r.toId = userId)

\* refresh() of mockDb.subscribeToIncomingRequests
MockRequestsView(store, userId) ==
    Filter(store.requests, LAMBDA r : r.toId = userId /\ r.status = "pending")

\* The documents `ids` of a collection as snap.docs: ascending document id.
RECURSIVE DocsInOrder(_, _)
DocsInOrder(coll, ids) ==
    IF ids = {} THEN <<>>
    ELSE LET first == CHOOSE id \in ids : \A o \in ids : Rank(id) <= Rank(o)
         IN  <<coll[first]>> \o DocsInOrder(coll, ids \ {first})

\* onSnapshot(query(messages, orderBy('timestamp','asc'))) handler
RemoteMessagesView(rem, userId, friendId) ==
    Filter(SortByTimestamp(DocsInOrder(rem.messages, DOMAIN rem.messages)),
           LAMBDA m : InConversation(m, userId, friendId))

\* onSnapshot(query(requests, toId == userId, status == 'pending')) handler
RemoteRequestsView(rem, userId) ==
    DocsInOrder(rem.requests,
                Docs(rem.requests, LAMBDA r : r.toId = userId /\ r.status = "pending"))

\* ids of subscribeToFriends' snapshot handler: [...s1 user2Id, ...s2 user1Id]
RemoteFriendIds(rem, userId) ==
    {rem.friendships[f].user2Id :
        f \in Docs(rem.friendships, LAMBDA d : d.user1Id = userId)}
    \cup
    {rem.friendships[f].user1Id :
        f \in Docs(rem.friendships, LAMBDA d : d.user2Id = userId)}

\* getDocs(query(users, where('id', 'in', ids)))
RemoteUsersIn(rem, ids) ==
    DocsInOrder(rem.users, Docs(rem.users, LAMBDA u : u.id \in ids))

(***************************************************************************)
(* State after module load (storage.ts:38-53)                              *)
(***************************************************************************)
KeyKinds == {"absent", "placeholder", "valid"}

\* useMock after lines 40-50: no or placeholder key, or initializeApp threw.
\* Mutant: only a missing key selects LOCAL mode.
InitUseMockKeyOnly(key, initThrows) == key = "absent"

\* Observation: initializeApp / getFirestore was called and threw.
InitThrew(key, initThrows) == key = "valid" /\ initThrows

InitUseMock(key, initThrows) ==
    LET byKey == key = "absent" \/ key = "placeholder"
    IN  IF ~byKey /\ initThrows THEN TRUE ELSE byKey

EmptyLocal  == [users |-> <<>>, friendships |-> <<>>, messages |-> <<>>,
                requests |-> <<>>]
EmptyRemote == [users |-> <<>>, friendships |-> <<>>, messages |-> <<>>,
                requests |-> <<>>]

NoSub == [kind |-> "none", userId |-> "-", friendId |-> "-", handle |-> "none",
          remoteOn |-> FALSE, localOn |-> FALSE, dirty |-> FALSE, thenQ |-> <<>>,
          unsub |-> FALSE, startedRemote |-> FALSE, delivered |-> FALSE,
          last |-> <<>>, late |-> FALSE, owed |-> FALSE, issued |-> <<>>]

NoRet == [op |-> "none", arg |-> [id |-> "-"], by |-> "none", failedOver |-> FALSE,
          outcome |-> "none", value |-> None]

NoneSaved == [b \in {"remote", "local"} |-> [id \in UserIds |-> None]]

\* Observation: for each tab, the arrays written by the puts whose events
\* were queued for it, one per event, in the order of the events.
NoPuts == [c \in Ctx |-> <<>>]

\* The tabs whose module has been loaded.
Loaded == DOMAIN useMock

\* The first tab has loaded the module; localStorage and Firestore are empty.
InitWith(parts) ==
    /\ focus \in parts
    /\ apiKey \in KeyKinds
    /\ \E throws \in BOOLEAN :
          /\ useMock = [c \in {"t1"} |-> InitUseMock(apiKey, throws)]
          /\ hist = [remoteFailed |-> [c \in Ctx |-> FALSE],
                     initThrew |-> [c \in Ctx |-> c = "t1" /\ InitThrew(apiKey, throws)],
                     lastSaved |-> NoneSaved,
                     puts |-> NoPuts,
                     streak |-> [c \in Ctx |-> 0]]
    /\ local = EmptyLocal
    /\ remote = EmptyRemote
    /\ calls = [c \in Ctx |-> {}]
    /\ subs = [c \in Ctx |-> [s \in SubIds |-> NoSub]]
    /\ inbox = [c \in Ctx |-> <<>>]
    /\ ret = [c \in Ctx |-> NoRet]

Init == InitWith({"calls"})

\* Another tab of the same build loads the module (storage.ts:38-53).
OpenTab(c) ==
    /\ c \notin Loaded
    /\ \E throws \in BOOLEAN :
          /\ useMock' = [t \in Loaded \cup {c} |->
                           IF t = c THEN InitUseMock(apiKey, throws) ELSE useMock[t]]
          /\ hist' = [hist EXCEPT !.initThrew[c] = InitThrew(apiKey, throws)]
    /\ UNCHANGED <<focus, apiKey, local, remote, calls, subs, inbox, ret>>

(***************************************************************************)
(* nexusChannel (storage.ts:53).  BroadcastChannel.postMessage queues a    *)
(* message event for every other BroadcastChannel object of that name; the *)
(* posting object itself gets none.  A tab has one object, nexusChannel.   *)
(***************************************************************************)
PostTo(box, from, posts) ==
    [c \in Ctx |-> IF c \in Loaded \ {from} THEN box[c] \o posts ELSE box[c]]

Post(from, posts) == PostTo(inbox, from, posts)

\* Mutant: the failure path toggles the flag instead of setting it.
DemoteToggles(c) == [useMock EXCEPT ![c] = ~@]

\* The catch blocks' `useMock = true`.
Demote(c) == [useMock EXCEPT ![c] = TRUE]

\* The promise of db.<op>(arg) resolves with `value`; `by` is the backend
\* that served the call.
Returned(op, arg, by, failedOver, value) ==
    [op |-> op, arg |-> arg, by |-> by, failedOver |-> failedOver,
     outcome |-> "ok", value |-> value]

\* Mutant: the callback marks once per unread message it was given.
ChatOnMessagesPerMessage(viewer, friend, msgs) ==
    LET unread == Filter(msgs, LAMBDA m : m.receiverId = viewer /\ ~m.isRead)
    IN  [i \in 1..Len(unread) |->
            NewCall("markMessagesAsRead", [userId |-> viewer, senderId |-> friend])]

\* The calls made by the callback ChatInterface passes to subscribeToMessages
\* (part_000:30-36), given msgs: `if (msgs.some(m => m.receiverId ===
\* currentUser.id && !m.isRead)) db.markMessagesAsRead(currentUser.id,
\* activeFriend.id)`.
ChatOnMessages(viewer, friend, msgs) ==
    IF \E i \in 1..Len(msgs) : msgs[i].receiverId = viewer /\ ~msgs[i].isRead
    THEN <<NewCall("markMessagesAsRead", [userId |-> viewer, senderId |-> friend])>>
    ELSE <<>>

\* callback(v) is invoked.  In the behaviours about the chat screen the
\* callback is ChatInterface's and `issued` holds the facade calls it made;
\* elsewhere the callback makes none.
Deliver(sub, v) ==
    [sub EXCEPT !.last = v, !.delivered = TRUE, !.late = @ \/ sub.unsub,
                !.issued = IF focus = "chatui" /\ sub.kind = "messages"
                           THEN ChatOnMessages(sub.userId, sub.friendId, v)
                           ELSE <<>>]

\* callback(v) is invoked with what was just read from localStorage.
DeliverLocal(sub, v) == [Deliver(sub, v) EXCEPT !.owed = FALSE]

\* What refresh() / getUser reads for a subscription from localStorage.
MockView(store, sub) ==
    CASE sub.kind = "user"     -> MockGetUser(store, sub.userId)
      [] sub.kind = "friends"  -> MockFriendsView(store, sub.userId)
      [] sub.kind = "messages" -> MockMessagesView(store, sub.userId, sub.friendId)
      [] sub.kind = "requests" -> MockRequestsView(store, sub.userId)

\* Observation: sub.owed holds when localStorage changed what an open
\* subscription of a tab in LOCAL mode shows and its callback has not been
\* given a Local read since.
Owing(store, store2, mode) ==
    [c \in Ctx |-> [s \in SubIds |->
        LET sub == subs[c][s]
        IN  IF /\ sub.kind # "none" /\ ~sub.unsub
               /\ c \in DOMAIN mode /\ mode[c]
               /\ MockView(store, sub) # MockView(store2, sub)
            THEN [sub EXCEPT !.owed = TRUE]
            ELSE sub]]

\* Observation: what the caller of a finished call saw is recorded in the
\* behaviours that are about the request/response methods.
Observed(c, r) ==
    IF focus \in {"calls", "rw", "auth", "patch", "idem", "vault"}
    THEN [ret EXCEPT ![c] = r] ELSE ret

\* Observation: how many calls in a row, counted up to 2, tab c has finished
\* that are this call served by this backend.
Streak(c, op, arg, by) ==
    IF ret[c].op = op /\ ret[c].arg = arg /\ ret[c].by = by
    THEN IF hist.streak[c] < 2 THEN hist.streak[c] + 1 ELSE 2
    ELSE 1

\* Observation: the record of the last finished saveUser per backend and id.
Saw(h, c, op, arg, by) ==
    IF focus = "rw" /\ op = "saveUser"
    THEN [h EXCEPT !.lastSaved[by][arg.user.id] = Some(arg.user)]
    ELSE IF focus = "idem"
    THEN [h EXCEPT !.streak[c] = Streak(c, op, arg, by)]
    ELSE h

WithinBounds(store, box) ==
    /\ \A key \in DOMAIN store : Len(store[key]) <= MaxArr
    /\ \A c \in Ctx : Len(box[c]) <= MaxInbox

\* `return mockDb.<op>(...)`: the tab runs the mockDb method to completion.
ServeLocal(c, op, arg, failedOver) ==
    LET r == MockRun(local, op, arg)
    IN  /\ WithinBounds(r.store, Post(c, r.posts))
        /\ local' = r.store
        /\ inbox' = Post(c, r.posts)
        /\ ret' = Observed(c, Returned(op, arg, "local", failedOver, r.value))
        /\ subs' = Owing(local, r.store, useMock')

\* The facade calls q made one after the other by a tab in LOCAL mode.
RECURSIVE MockRunSeq(_, _)
MockRunSeq(store, q) ==
    IF q = <<>> THEN [store |-> store, posts |-> <<>>]
    ELSE LET r    == MockRun(store, Head(q).op, Head(q).arg)
             rest == MockRunSeq(r.store, Tail(q))
         IN  [store |-> rest.store, posts |-> r.posts \o rest.posts]

\* What the facade calls made inside a callback do, when subscription record
\* sub2 was (did) or was not given a value in this step: in LOCAL mode the
\* mockDb methods run at once, in REMOTE mode the calls await Firestore.
CallbackEffects(c, sub2, did, box, mode) ==
    LET q == IF did THEN sub2.issued ELSE <<>>
        r == MockRunSeq(local, q)
    IN  IF q = <<>>
        THEN [local |-> local, calls |-> calls, inbox |-> box, sub |-> sub2]
        ELSE IF mode[c]
        THEN [local |-> r.store, calls |-> calls, inbox |-> PostTo(box, c, r.posts),
              sub |-> IF MockView(r.store, sub2) # MockView(local, sub2)
                      THEN [sub2 EXCEPT !.owed = TRUE] ELSE sub2]
        ELSE [local |-> local, calls |-> [calls EXCEPT ![c] = @ \cup Range(q)],
              inbox |-> box, sub |-> sub2]

\* Subscription s of tab c becomes sub2, with the effects of its callback.
Callbacks(c, s, sub2, did, box, mode) ==
    LET e == CallbackEffects(c, sub2, did, box, mode)
    IN  /\ subs' = [subs EXCEPT ![c][s] = e.sub]
        /\ local' = e.local
        /\ calls' = e.calls
        /\ inbox' = e.inbox

\* A remote write reaches the listeners whose watched documents it changed.
Watched(rem, sub) ==
    CASE sub.kind = "user" ->
            IF Exists(rem.users, sub.userId) THEN Some(rem.users[sub.userId]) ELSE None
      [] sub.kind = "friends"  -> <<rem.friendships>>
      [] sub.kind = "messages" -> <<rem.messages>>
      [] sub.kind = "requests" -> RemoteRequestsView(rem, sub.userId)
      [] OTHER -> <<>>

Notified(rem, rem2) ==
    [c \in Ctx |-> [s \in SubIds |->
        IF subs[c][s].remoteOn /\ Watched(rem, subs[c][s]) # Watched(rem2, subs[c][s])
        THEN [subs[c][s] EXCEPT !.dirty = TRUE]
        ELSE subs[c][s]]]

(***************************************************************************)
(* Request/response methods of `db` (storage.ts:199-239, 273-280, 297-318, *)
(* 331-347)                                                                *)
(***************************************************************************)
\* db.<op>(arg) is called: `if (useMock) return mockDb.<op>(arg)`, otherwise
\* the first Firestore promise is awaited.
DbCall(c, op, arg) ==
    /\ c \in Loaded
    /\ IF useMock[c]
       THEN /\ UNCHANGED <<focus, apiKey, useMock, remote, calls>>
            /\ hist' = Saw(hist, c, op, arg, "local")
            /\ ServeLocal(c, op, arg, FALSE)
       ELSE /\ Cardinality(calls[c]) < MaxCalls
            /\ NewCall(op, arg) \notin calls[c]
            /\ calls' = [calls EXCEPT ![c] = @ \cup {NewCall(op, arg)}]
            /\ UNCHANGED <<focus, apiKey, useMock, local, remote, subs, inbox, ret, hist>>

IsFacadeCall(k) == k.op # "friendsSnapshot"

\* The awaited promise of call k resolves.
RemoteOk(c, k) ==
    /\ k \in calls[c]
    /\ IsFacadeCall(k)
    /\ RemoteCanSucceed(remote, k)
    /\ LET r == RemoteResolve(remote, k)
       IN  /\ remote' = r.remote
           /\ subs' = Notified(remote, r.remote)
           /\ IF r.next = None
              THEN /\ calls' = [calls EXCEPT ![c] = @ \ {k}]
                   /\ ret' = Observed(c, Returned(k.op, k.arg, "remote", FALSE, r.value))
                   /\ hist' = Saw(hist, c, k.op, k.arg, "remote")
              ELSE /\ calls' = [calls EXCEPT ![c] = (@ \ {k}) \cup {r.next[1]}]
                   /\ ret' = ret
                   /\ hist' = hist
    /\ UNCHANGED <<focus, apiKey, useMock, local, inbox>>

\* Mutant: the catch block sets the flag and rethrows instead of retrying.
RemoteFailRethrows(c, k) ==
    /\ k \in calls[c]
    /\ IsFacadeCall(k)
    /\ useMock' = Demote(c)
    /\ calls' = [calls EXCEPT ![c] = @ \ {k}]
    /\ ret' = [ret EXCEPT ![c] = [Returned(k.op, k.arg, "none", TRUE, None)
                                    EXCEPT !.outcome = "throw"]]
    /\ hist' = [hist EXCEPT !.remoteFailed[c] = TRUE]
    /\ UNCHANGED <<focus, apiKey, local, remote, subs, inbox>>

\* Mutant: on failure the Local users are first replaced by Firestore's.
RemoteFailSeeds(c, k) ==
    LET seeded == [local EXCEPT !.users = DocsInOrder(remote.users, DOMAIN remote.users)]
        r      == MockRun(seeded, k.op, k.arg)
    IN  /\ k \in calls[c]
        /\ IsFacadeCall(k)
        /\ useMock' = Demote(c)
        /\ WithinBounds(r.store, Post(c, r.posts))
        /\ local' = r.store
        /\ inbox' = Post(c, r.posts)
        /\ ret' = Observed(c, Returned(k.op, k.arg, "local", TRUE, r.value))
        /\ subs' = Owing(local, r.store, useMock')
        /\ calls' = [calls EXCEPT ![c] = @ \ {k}]
        /\ hist' = Saw([hist EXCEPT !.remoteFailed[c] = TRUE], c, k.op, k.arg, "local")
        /\ UNCHANGED <<focus, apiKey, remote>>

\* The awaited promise of call k rejects: `catch { useMock = true; await
\* mockDb.<op>(arg) }`.
RemoteFail(c, k) ==
    /\ k \in calls[c]
    /\ IsFacadeCall(k)
    /\ useMock' = Demote(c)
    /\ ServeLocal(c, k.op, k.arg, TRUE)
    /\ calls' = [calls EXCEPT ![c] = @ \ {k}]
    /\ hist' = Saw([hist EXCEPT !.remoteFailed[c] = TRUE], c, k.op, k.arg, "local")
    /\ UNCHANGED <<focus, apiKey, remote>>

\* crypto.randomUUID(): an id no record or call has.
UsedIds ==
    {local.messages[i].id : i \in 1..Len(local.messages)}
    \cup {local.requests[i].id : i \in 1..Len(local.requests)}
    \cup DOMAIN remote.messages \cup DOMAIN remote.requests
    \cup UNION {{k.arg.msg.id : k \in {x \in calls[c] : x.op = "sendMessage"}} :
                   c \in Ctx}
    \cup UNION {{k.arg.req.id : k \in {x \in calls[c] : x.op = "sendFriendRequest"}} :
                   c \in Ctx}

(***************************************************************************)
(* Subscriptions (storage.ts:97-109, 110-125, 132-146, 163-174, 241-271,   *)
(* 282-295, 320-329)                                                       *)
(***************************************************************************)
\* `this.getUser(userId).then(u => u && callback(u))`: the read is made now,
\* the callback runs in a later microtask, and only for a record.
ThenCallback(sub, u) == IF u # None THEN DeliverLocal(sub, u) ELSE sub

\* mockDb.subscribeTo<Kind>: addEventListener, then the first read.
MockSubscribe(store, sub) ==
    LET on == [sub EXCEPT !.localOn = TRUE]
    IN  IF sub.kind = "user"
        THEN [on EXCEPT !.thenQ = Append(@, MockGetUser(store, sub.userId))]
        ELSE DeliverLocal(on, MockView(store, sub))

\* The message handler a mockDb subscription registered, given event e.
HandlerReads(sub, e) ==
    CASE sub.kind = "user" ->
            \/ e.type = "user_update" /\ e.key = sub.userId
            \/ e.type = "sync" /\ e.key = "users"
      [] sub.kind = "friends" ->
            e.type = "sync" /\ e.key \in {"friendships", "users"}
      [] sub.kind = "messages" ->
            e.type = "new_msg" \/ (e.type = "sync" /\ e.key = "messages")
      [] sub.kind = "requests" ->
            e.type = "sync" /\ e.key = "requests"
      [] OTHER -> FALSE

MockHandler(store, sub, e) ==
    IF sub.localOn /\ HandlerReads(sub, e)
    THEN IF sub.kind = "user" THEN ThenCallback(sub, MockGetUser(store, sub.userId))
         ELSE DeliverLocal(sub, MockView(store, sub))
    ELSE sub

NewSub(kind, userId, friendId) ==
    [NoSub EXCEPT !.kind = kind, !.userId = userId, !.friendId = friendId]

\* db.subscribeTo<Kind>(...) returns. In REMOTE mode either onSnapshot
\* registers the listener, or the try block throws and the catch returns a
\* mockDb subscription (the catch does not touch useMock).
DbSubscribe(c, s, kind, userId, friendId, throws) ==
    /\ c \in Loaded
    /\ subs[c][s].kind = "none"
    /\ LET sub     == NewSub(kind, userId, friendId)
           viaMock == [MockSubscribe(local, sub) EXCEPT !.handle = "local"]
           viaFire == [sub EXCEPT !.handle = "remote", !.remoteOn = TRUE,
                                  !.dirty = TRUE, !.startedRemote = TRUE]
       IN  IF useMock[c]
           THEN /\ ~throws
                /\ Callbacks(c, s, viaMock, kind # "user", inbox, useMock)
                /\ hist' = hist
           ELSE IF throws
           THEN /\ Callbacks(c, s, [viaMock EXCEPT !.startedRemote = TRUE],
                             kind # "user", inbox, useMock)
                /\ hist' = [hist EXCEPT !.remoteFailed[c] = TRUE]
           ELSE /\ Callbacks(c, s, viaFire, FALSE, inbox, useMock)
                /\ hist' = hist
    /\ UNCHANGED <<focus, apiKey, useMock, remote, ret>>

\* The function db.subscribeTo<Kind> returned is called.
Unsubscribe(c, s) ==
    /\ subs[c][s].kind # "none"
    /\ subs' = [subs EXCEPT ![c][s] =
                  IF @.handle = "remote"
                  THEN [@ EXCEPT !.remoteOn = FALSE, !.dirty = FALSE, !.unsub = TRUE]
                  ELSE [@ EXCEPT !.localOn = FALSE, !.unsub = TRUE]]
    /\ UNCHANGED <<focus, apiKey, useMock, local, remote, calls, inbox, ret, hist>>

\* The microtask of subscribeToUser's first getUser(...).then(...) runs.
ThenRun(c, s) ==
    /\ subs[c][s].thenQ # <<>>
    /\ subs' = [subs EXCEPT ![c][s] =
                  [ThenCallback(@, Head(@.thenQ)) EXCEPT !.thenQ = Tail(@)]]
    /\ UNCHANGED <<focus, apiKey, useMock, local, remote, calls, inbox, ret, hist>>

\* The tab's event loop dispatches the next message event of nexusChannel.
\* (A tab holds one subscription, s.)
ChannelDeliver(c) ==
    LET s == CHOOSE x \in SubIds : TRUE
        e == Head(inbox[c])
    IN  /\ inbox[c] # <<>>
        /\ Callbacks(c, s, MockHandler(local, subs[c][s], e),
                     subs[c][s].localOn /\ HandlerReads(subs[c][s], e),
                     [inbox EXCEPT ![c] = Tail(@)], useMock)
        /\ UNCHANGED <<focus, apiKey, useMock, remote, ret, hist>>

\* Firestore pushes a snapshot to the onSnapshot listener of subscription s.
RemoteSnapshot(c, s) ==
    LET sub == subs[c][s]
        got == [sub EXCEPT !.dirty = FALSE]
        k   == NewCall("friendsSnapshot", [sub |-> s, userId |-> sub.userId])
    IN  /\ sub.remoteOn /\ sub.dirty
        /\ CASE sub.kind = "user" ->
                   Callbacks(c, s, IF Exists(remote.users, sub.userId)
                                   THEN Deliver(got, Some(remote.users[sub.userId]))
                                   ELSE got,
                             Exists(remote.users, sub.userId), inbox, useMock)
             [] sub.kind = "messages" ->
                   Callbacks(c, s,
                             Deliver(got, RemoteMessagesView(remote, sub.userId,
                                                             sub.friendId)),
                             TRUE, inbox, useMock)
             [] sub.kind = "requests" ->
                   Callbacks(c, s, Deliver(got, RemoteRequestsView(remote, sub.userId)),
                             TRUE, inbox, useMock)
             [] sub.kind = "friends" ->
                   \* the async handler starts and awaits Promise.all(getDocs...)
                   /\ Cardinality(calls[c]) < MaxCalls
                   /\ k \notin calls[c]
                   /\ subs' = [subs EXCEPT ![c][s] = got]
                   /\ calls' = [calls EXCEPT ![c] = @ \cup {k}]
                   /\ UNCHANGED <<local, inbox>>
        /\ UNCHANGED <<focus, apiKey, useMock, remote, ret, hist>>

\* An await of subscribeToFriends' snapshot handler resolves.
FriendsResolve(c, k) ==
    /\ k \in calls[c]
    /\ k.op = "friendsSnapshot"
    /\ LET s   == k.arg.sub
           ids == RemoteFriendIds(remote, k.arg.userId)
       IN  IF k.pc = 0 /\ ids # {}
           THEN /\ calls' = [calls EXCEPT ![c] =
                               (@ \ {k}) \cup {[k EXCEPT !.pc = 1, !.tmp = ids]}]
                /\ subs' = subs
           ELSE /\ calls' = [calls EXCEPT ![c] = @ \ {k}]
                /\ subs' = [subs EXCEPT ![c][s] =
                              Deliver(@, IF k.pc = 0 THEN <<>>
                                         ELSE RemoteUsersIn(remote, k.tmp))]
    /\ UNCHANGED <<focus, apiKey, useMock, local, remote, inbox, ret, hist>>

\* An await of the snapshot handler rejects: nothing catches it.
FriendsReject(c, k) ==
    /\ k \in calls[c]
    /\ k.op = "friendsSnapshot"
    /\ calls' = [calls EXCEPT ![c] = @ \ {k}]
    /\ hist' = [hist EXCEPT !.remoteFailed[c] = TRUE]
    /\ UNCHANGED <<focus, apiKey, useMock, local, remote, subs, inbox, ret>>

\* Mutant: the snapshot listener stays registered after its error callback.
RemoteListenerErrorKeeps(c, s) ==
    /\ subs[c][s].remoteOn
    /\ useMock' = Demote(c)
    /\ Callbacks(c, s, MockSubscribe(local, subs[c][s]),
                 subs[c][s].kind # "user", inbox, Demote(c))
    /\ hist' = [hist EXCEPT !.remoteFailed[c] = TRUE]
    /\ UNCHANGED <<focus, apiKey, remote, ret>>

\* Firestore ends the listener with an error: the error callback sets
\* useMock and calls mockDb.subscribeTo<Kind>, dropping what it returns.
RemoteListenerError(c, s) ==
    /\ subs[c][s].remoteOn
    /\ useMock' = Demote(c)
    /\ Callbacks(c, s,
                 MockSubscribe(local, [subs[c][s] EXCEPT !.remoteOn = FALSE,
                                                         !.dirty = FALSE]),
                 subs[c][s].kind # "user", inbox, Demote(c))
    /\ hist' = [hist EXCEPT !.remoteFailed[c] = TRUE]
    /\ UNCHANGED <<focus, apiKey, remote, ret>>

(***************************************************************************)
(* What the callers pass (the components of the application)               *)
(***************************************************************************)
UserRec(id, username, bio) ==
    [id |-> id, username |-> username, bio |-> bio, typingTo |-> NoUser]

\* handleSendMessage: a fresh id, isRead: false
MsgRec(id, senderId, receiverId, timestamp) ==
    [id |-> id, senderId |-> senderId, receiverId |-> receiverId,
     timestamp |-> timestamp, isRead |-> FALSE]

\* handleSendRequest: a fresh id, status: 'pending'
ReqRec(id, fromId, toId) ==
    [id |-> id, fromId |-> fromId, toId |-> toId, status |-> "pending"]

GetUser(c, ids) ==
    \E id \in ids : DbCall(c, "getUser", [id |-> id])

GetUserByUsername(c, names) ==
    \E n \in names : DbCall(c, "getUserByUsername", [username |-> n])

SaveUser(c, users) ==
    \E u \in users : DbCall(c, "saveUser", [user |-> u])

UpdateUserStatus(c, ids, updates) ==
    \E id \in ids : \E upd \in updates :
        DbCall(c, "updateUserStatus", [userId |-> id, updates |-> upd])

SendMessage(c, ids, pairs, times) ==
    \E id \in ids \ UsedIds : \E p \in pairs : \E t \in times :
        DbCall(c, "sendMessage", [msg |-> MsgRec(id, p[1], p[2], t)])

MarkMessagesAsRead(c, pairs) ==
    \E p \in pairs :
        DbCall(c, "markMessagesAsRead", [userId |-> p[1], senderId |-> p[2]])

SendFriendRequest(c, ids, pairs) ==
    \E id \in ids \ UsedIds : \E p \in pairs :
        DbCall(c, "sendFriendRequest", [req |-> ReqRec(id, p[1], p[2])])

HandleFriendRequest(c, ids, statuses) ==
    \E id \in ids : \E st \in statuses :
        DbCall(c, "handleFriendRequest", [requestId |-> id, status |-> st])

(***************************************************************************)
(* Spec: one tab using the eight request/response methods of `db`, in both *)
(* modes and across a failover.                                            *)
(***************************************************************************)
Alice == UserRec("a", "al", 0)

Bob == UserRec("b", "bo", 0)

BothUsers == {Alice, Bob}

\* Two versions of user a, and user b.
SavedUsers == {UserRec("a", "al", 0), UserRec("a", "al", 1), Bob}

\* Partial<User> objects passed to updateUserStatus
Patches == {[typingTo |-> "b"], [bio |-> 1]}

\* ChatWindow sets typingTo to the friend while typing and to null after.
Typings == {[typingTo |-> "b"], [typingTo |-> NoUser]}

\* Two spellings of one username
Spellings == {"al", "Al"}

Next ==
    \/ GetUser("t1", {"a"})
    \/ GetUserByUsername("t1", {"al"})
    \/ SaveUser("t1", {Alice})
    \/ UpdateUserStatus("t1", {"a"}, {[typingTo |-> "b"]})
    \/ SendMessage("t1", {"m1"}, {<<"a", "b">>}, {1})
    \/ MarkMessagesAsRead("t1", {<<"b", "a">>})
    \/ SendFriendRequest("t1", {"r1"}, {<<"a", "b">>})
    \/ HandleFriendRequest("t1", {"r1"}, Statuses)
    \/ \E k \in calls["t1"] : RemoteOk("t1", k)
    \/ \E k \in calls["t1"] : RemoteFail("t1", k)

Spec == Init /\ [][Next]_vars

(***************************************************************************)
(* SpecSubs: one tab with one subscription and the methods that change     *)
(* what it shows, in both modes and across a failover.  A behaviour stays  *)
(* in one part of the application: the profile (user), a conversation      *)
(* (chat) or the connections page (friends).                               *)
(***************************************************************************)
InitSubs == InitWith({"user", "chat", "friends"})

\* The subscription calls, snapshots and failures of tab c.
Subscriptions(c) ==
    \/ \E throws \in BOOLEAN :
          focus = "user" /\ DbSubscribe(c, "s1", "user", "a", "-", throws)
    \/ \E throws \in BOOLEAN :
          focus = "chat" /\ DbSubscribe(c, "s1", "messages", "b", "a", throws)
    \/ \E throws \in BOOLEAN :
          focus = "friends" /\ DbSubscribe(c, "s1", "requests", "b", "-", throws)
    \/ \E throws \in BOOLEAN :
          focus = "friends" /\ DbSubscribe(c, "s1", "friends", "a", "-", throws)
    \/ Unsubscribe(c, "s1")
    \/ ThenRun(c, "s1")
    \/ RemoteSnapshot(c, "s1")
    \/ RemoteListenerError(c, "s1")
    \/ \E k \in calls[c] : FriendsResolve(c, k)
    \/ \E k \in calls[c] : FriendsReject(c, k)

\* The writes of tab c that change what the subscriptions show.
Writes(c) ==
    \/ focus = "user" /\ SaveUser(c, {Alice})
    \/ focus = "user" /\ UpdateUserStatus(c, {"a"}, {[typingTo |-> "b"]})
    \/ focus = "chat" /\ SendMessage(c, MsgIds, {<<"a", "b">>}, Times)
    \/ focus = "chat" /\ MarkMessagesAsRead(c, {<<"b", "a">>})
    \/ focus = "friends" /\ SaveUser(c, {Bob})
    \/ focus = "friends" /\ UpdateUserStatus(c, {"b"}, {[typingTo |-> "a"]})
    \/ focus = "friends" /\ SendFriendRequest(c, {"r1"}, BothWays)
    \/ focus = "friends" /\ HandleFriendRequest(c, {"r1"}, Statuses)

NextSubs ==
    \/ Writes("t1")
    \/ GetUser("t1", {"a"})
    \/ \E k \in calls["t1"] : RemoteOk("t1", k)
    \/ \E k \in calls["t1"] : RemoteFail("t1", k)
    \/ Subscriptions("t1")

SpecSubs == InitSubs /\ [][NextSubs]_vars

(***************************************************************************)
(* SpecTabs: tab t1 subscribes and reads; a second tab t2 of the same      *)
(* build, in LOCAL mode, does the writing.                                 *)
(***************************************************************************)
\* A tab loads the module and starts in LOCAL mode.
OpenLocalTab(c) == OpenTab(c) /\ useMock'[c]

NextTabs ==
    \/ OpenLocalTab("t2")
    \/ Writes("t2")
    \/ GetUser("t1", {"a"})
    \/ \E k \in calls["t1"] : RemoteOk("t1", k)
    \/ \E k \in calls["t1"] : RemoteFail("t1", k)
    \/ Subscriptions("t1")
    \/ ChannelDeliver("t1")

SpecTabs == InitSubs /\ [][NextTabs]_vars

(***************************************************************************)
(* SpecRW: one tab saving and reading User records, in both modes and      *)
(* across a failover.                                                      *)
(***************************************************************************)
InitRW == InitWith({"rw"})

NextRW ==
    \/ SaveUser("t1", SavedUsers)
    \/ GetUser("t1", UserIds)
    \/ \E k \in calls["t1"] : RemoteOk("t1", k)
    \/ \E k \in calls["t1"] : RemoteFail("t1", k)

SpecRW == InitRW /\ [][NextRW]_vars

(***************************************************************************)
(* SpecRace: two tabs of a build without an API key, both in LOCAL mode,   *)
(* sending and reading messages.  localStorage is shared by the tabs'      *)
(* processes and is not locked between one tab's getItem and its setItem,  *)
(* so the two halves of mockDb.sendMessage / markMessagesAsRead            *)
(* (storage.ts:127-129, 148-156) are separate steps here.                  *)
(***************************************************************************)
InitRace == InitWith({"race"}) /\ apiKey = "absent"

\* `const msgs = mockStore.get('messages')`: the tab's task has parsed the
\* array it will write back.
MockGet(c, op, arg) ==
    /\ c \in Loaded /\ useMock[c]
    /\ calls[c] = {}
    /\ calls' = [calls EXCEPT ![c] = {[NewCall(op, arg) EXCEPT !.tmp = local.messages]}]
    /\ UNCHANGED <<focus, apiKey, useMock, local, remote, subs, inbox, ret, hist>>

\* Mutant: the method's change is applied to the array localStorage holds
\* at the time of the write.
MockSetOnCurrent(c, k) ==
    LET r == MockRun(local, k.op, k.arg)
    IN  /\ k \in calls[c]
        /\ WithinBounds(r.store, Post(c, r.posts))
        /\ local' = r.store
        /\ inbox' = Post(c, r.posts)
        /\ calls' = [calls EXCEPT ![c] = @ \ {k}]
        /\ UNCHANGED <<focus, apiKey, useMock, remote, subs, ret, hist>>

\* The rest of the method: the array read earlier is changed and, when the
\* method calls mockStore.set, written over whatever localStorage holds now.
MockSet(c, k) ==
    LET r == MockRun([local EXCEPT !.messages = k.tmp], k.op, k.arg)
    IN  /\ k \in calls[c]
        /\ WithinBounds(r.store, Post(c, r.posts))
        /\ local' = IF r.posts # <<>>
                    THEN [local EXCEPT !.messages = r.store.messages]
                    ELSE local
        /\ inbox' = Post(c, r.posts)
        /\ calls' = [calls EXCEPT ![c] = @ \ {k}]
        /\ UNCHANGED <<focus, apiKey, useMock, remote, subs, ret, hist>>

NextRace ==
    \/ OpenLocalTab("t2")
    \/ \E c \in Ctx : \E id \in MsgIds \ UsedIds :
          MockGet(c, "sendMessage", [msg |-> MsgRec(id, "b", "a", 1)])
    \/ \E c \in Ctx :
          MockGet(c, "markMessagesAsRead", [userId |-> "a", senderId |-> "b"])
    \/ \E c \in Ctx : \E k \in calls[c] : MockSet(c, k)
    \/ \E c \in Ctx : ChannelDeliver(c)

SpecRace == InitRace /\ [][NextRace]_vars

(***************************************************************************)
(* SpecAuth: one tab registering accounts through AuthScreen.handleAuth    *)
(* (part_000:257-305), one registration at a time, in both modes and       *)
(* across a failover.                                                      *)
(***************************************************************************)
InitAuth == InitWith({"auth"})

Usernames == {"al", "Al", "bo"}

\* crypto.randomUUID() for a new User: an id no stored user has.
UsedUserIds ==
    {local.users[i].id : i \in 1..Len(local.users)} \cup DOMAIN remote.users

\* No handleAuth of the tab is between its awaits.
AuthIdle(c) == calls[c] = {} /\ ret[c].op # "getUserByUsername"

\* handleAuth with isRegistering, up to `await db.getUserByUsername(username)`.
RegisterCheck(c, username) ==
    /\ c \in Loaded
    /\ AuthIdle(c)
    /\ DbCall(c, "getUserByUsername", [username |-> username])

\* handleAuth after the await: `if (existing) { setError(...); return }`,
\* otherwise `await db.saveUser(newUser)`.
RegisterSave(c) ==
    /\ c \in Loaded
    /\ calls[c] = {}
    /\ ret[c].op = "getUserByUsername"
    /\ IF ret[c].value # None
       THEN /\ ret' = [ret EXCEPT ![c] =
                         [Returned("register", ret[c].arg, ret[c].by, FALSE, None)
                            EXCEPT !.outcome = "conflict"]]
            /\ UNCHANGED <<focus, apiKey, useMock, local, remote, calls, subs,
                           inbox, hist>>
       ELSE \E id \in UserIds \ UsedUserIds :
               DbCall(c, "saveUser",
                      [user |-> UserRec(id, ret[c].arg.username, 0)])

NextAuth ==
    \/ \E n \in Usernames : RegisterCheck("t1", n)
    \/ RegisterSave("t1")
    \/ \E k \in calls["t1"] : RemoteOk("t1", k)
    \/ \E k \in calls["t1"] : RemoteFail("t1", k)

SpecAuth == InitAuth /\ [][NextAuth]_vars

(***************************************************************************)
(* SpecChat: one tab showing the conversation of viewer "b" with "a"       *)
(* through ChatInterface (part_000:27-52): the callback of its messages    *)
(* subscription marks the conversation read.  Messages of both directions  *)
(* are written through the same facade.                                    *)
(***************************************************************************)
InitChat == InitWith({"chatui"})

NextChat ==
    \/ \E throws \in BOOLEAN : DbSubscribe("t1", "s1", "messages", "b", "a", throws)
    \/ Unsubscribe("t1", "s1")
    \/ RemoteSnapshot("t1", "s1")
    \/ RemoteListenerError("t1", "s1")
    \/ SendMessage("t1", MsgIds, BothWays, {1})
    \/ \E k \in calls["t1"] : RemoteOk("t1", k)
    \/ \E k \in calls["t1"] : RemoteFail("t1", k)

SpecChat == InitChat /\ [][NextChat]_vars

(***************************************************************************)
(* SpecPatch: one tab saving two users and patching their typingTo and bio *)
(* fields, in both modes and across a failover.                            *)
(***************************************************************************)
InitPatch == InitWith({"patch"})

NextPatch ==
    \/ SaveUser("t1", BothUsers)
    \/ UpdateUserStatus("t1", UserIds, Patches)
    \/ \E k \in calls["t1"] : RemoteOk("t1", k)
    \/ \E k \in calls["t1"] : RemoteFail("t1", k)

SpecPatch == InitPatch /\ [][NextPatch]_vars

(***************************************************************************)
(* SpecTwin: the same sequence of facade calls made in a tab in LOCAL mode *)
(* (t1, whose initialization threw) and in a tab in REMOTE mode (t2), one  *)
(* call at a time, each awaited, with no Firestore failure.  t1 works on   *)
(* localStorage only and t2 on Firestore only.                             *)
(***************************************************************************)
InitTwin ==
    /\ focus = "twin"
    /\ apiKey = "valid"
    /\ useMock = [c \in Ctx |-> c = "t1"]
    /\ local = EmptyLocal
    /\ remote = EmptyRemote
    /\ calls = [c \in Ctx |-> {}]
    /\ subs = [c \in Ctx |-> [s \in SubIds |-> NoSub]]
    /\ inbox = [c \in Ctx |-> <<>>]
    /\ ret = [c \in Ctx |-> NoRet]
    /\ hist = [remoteFailed |-> [c \in Ctx |-> FALSE],
               initThrew |-> [c \in Ctx |-> c = "t1"],
               lastSaved |-> NoneSaved,
               puts |-> NoPuts,
               streak |-> [c \in Ctx |-> 0]]

\* db.<op>(arg) in REMOTE mode with every await resolving.
RECURSIVE RemoteRun(_, _)
RemoteRun(rem, k) ==
    LET r == RemoteResolve(rem, k)
    IN  IF r.next = None THEN r ELSE RemoteRun(r.remote, r.next[1])

\* `await db.<op>(arg)` in t1 and in t2.
TwinCall(op, arg) ==
    LET l == MockRun(local, op, arg)
        r == RemoteRun(remote, NewCall(op, arg))
    IN  /\ RemoteCanSucceed(remote, NewCall(op, arg))
        /\ WithinBounds(l.store, Post("t1", l.posts))
        /\ local' = l.store
        /\ inbox' = Post("t1", l.posts)
        /\ remote' = r.remote
        /\ ret' = [ret EXCEPT !["t1"] = Returned(op, arg, "local", FALSE, l.value),
                              !["t2"] = Returned(op, arg, "remote", FALSE, r.value)]
        /\ UNCHANGED <<focus, apiKey, useMock, calls, subs, hist>>

NextTwin ==
    \/ \E u \in BothUsers : TwinCall("saveUser", [user |-> u])
    \/ \E id \in UserIds : TwinCall("getUser", [id |-> id])
    \/ \E n \in Spellings : TwinCall("getUserByUsername", [username |-> n])
    \/ TwinCall("updateUserStatus", [userId |-> "a", updates |-> [typingTo |-> "b"]])
    \/ \E id \in {"m1"} \ UsedIds :
          TwinCall("sendMessage", [msg |-> MsgRec(id, "a", "b", 1)])
    \/ TwinCall("markMessagesAsRead", [userId |-> "b", senderId |-> "a"])
    \/ \E id \in {"r1"} \ UsedIds :
          TwinCall("sendFriendRequest", [req |-> ReqRec(id, "a", "b")])
    \/ \E st \in Statuses :
          TwinCall("handleFriendRequest", [requestId |-> "r1", status |-> st])
    \/ ChannelDeliver("t2")

SpecTwin == InitTwin /\ [][NextTwin]_vars

(***************************************************************************)
(* SpecPut: two tabs of a build without an API key.  t2 sends messages and *)
(* marks them read, t1 shows the conversation.  The tabs' tasks run side   *)
(* by side, so the statements of mockStore.set in t2 (storage.ts:69-70)    *)
(* are separate steps and t1 may dispatch an event between them.           *)
(***************************************************************************)
InitPut == InitWith({"put"}) /\ apiKey = "absent"

\* The events `posts` of tab `from`, emitted by a method that put `data`,
\* are recorded for the tabs they are queued for.
Logged(h, from, posts, data) ==
    [h EXCEPT !.puts = [c \in Ctx |->
        IF c \in Loaded \ {from}
        THEN @[c] \o [i \in 1..Len(posts) |-> data]
        ELSE @[c]]]

\* The next statement of mockStore.set('messages', msgs) in the method k of
\* tab c, whose array was read earlier (MockGet); a method that does not call
\* set returns.  What follows set in the method (sendMessage's new_msg) runs
\* with set's last statement.
PutStep(c, k) ==
    LET r     == MockRun([local EXCEPT !.messages = k.tmp], k.op, k.arg)
        stmt  == SetOrder[k.pc + 1]
        last  == k.pc + 1 = Len(SetOrder)
        posts == IF r.posts = <<>> THEN <<>>
                 ELSE (IF stmt = "postMessage" THEN <<Head(r.posts)>> ELSE <<>>)
                      \o (IF last THEN Tail(r.posts) ELSE <<>>)
    IN  /\ k \in calls[c]
        /\ WithinBounds(r.store, Post(c, posts))
        /\ local' = IF r.posts # <<>> /\ stmt = "setItem"
                    THEN [local EXCEPT !.messages = r.store.messages]
                    ELSE local
        /\ inbox' = Post(c, posts)
        /\ hist' = Logged(hist, c, posts, r.store.messages)
        /\ calls' = [calls EXCEPT ![c] =
                       IF last \/ r.posts = <<>> THEN @ \ {k}
                       ELSE (@ \ {k}) \cup {[k EXCEPT !.pc = @ + 1]}]
        /\ UNCHANGED <<focus, apiKey, useMock, remote, subs, ret>>

NextPut ==
    \/ OpenLocalTab("t2")
    \/ DbSubscribe("t1", "s1", "messages", "a", "b", FALSE)
    \/ Unsubscribe("t1", "s1")
    \/ \E id \in MsgIds \ UsedIds :
          MockGet("t2", "sendMessage", [msg |-> MsgRec(id, "b", "a", 1)])
    \/ MockGet("t2", "markMessagesAsRead", [userId |-> "a", senderId |-> "b"])
    \/ \E k \in calls["t2"] : PutStep("t2", k)
    \/ ChannelDeliver("t1")

SpecPut == InitPut /\ [][NextPut]_vars

(***************************************************************************)
(* SpecIdem: one tab sending a message, marking the conversation read and  *)
(* setting and clearing the typing status, each call awaited before the    *)
(* next is made and calls being repeated, in both modes and across a       *)
(* failover.                                                               *)
(***************************************************************************)
InitIdem == InitWith({"idem"})

\* The caller has no call of tab c to await.
Idle(c) == calls[c] = {}

NextIdem ==
    \/ Idle("t1") /\ SaveUser("t1", {Alice})
    \/ Idle("t1") /\ UpdateUserStatus("t1", {"a"}, Typings)
    \/ Idle("t1") /\ SendMessage("t1", {"m1"}, {<<"a", "b">>}, {1})
    \/ Idle("t1") /\ MarkMessagesAsRead("t1", {<<"b", "a">>})
    \/ \E k \in calls["t1"] : RemoteOk("t1", k)
    \/ \E k \in calls["t1"] : RemoteFail("t1", k)

SpecIdem == InitIdem /\ [][NextIdem]_vars

(***************************************************************************)
(* SpecRecords: one tab creating and changing records of the four kinds,   *)
(* with friend requests in both directions between "a" and "b", in both    *)
(* modes and across a failover.                                            *)
(***************************************************************************)
InitRecords == InitWith({"records"})

NextRecords ==
    \/ SaveUser("t1", {Alice})
    \/ UpdateUserStatus("t1", {"a"}, {[typingTo |-> "b"]})
    \/ SendMessage("t1", {"m1"}, {<<"a", "b">>}, {1})
    \/ MarkMessagesAsRead("t1", {<<"b", "a">>})
    \/ Idle("t1") /\ SendFriendRequest("t1", {"r1"}, {<<"a", "b">>})
    \/ Idle("t1") /\ SendFriendRequest("t1", {"r2"}, {<<"b", "a">>})
    \/ Idle("t1") /\ HandleFriendRequest("t1", BothReqIds, Statuses)
    \/ \E k \in calls["t1"] : RemoteOk("t1", k)
    \/ \E k \in calls["t1"] : RemoteFail("t1", k)

SpecRecords == InitRecords /\ [][NextRecords]_vars

(***************************************************************************)
(* SpecVault: one tab logging in from the vault through                    *)
(* AuthScreen.loginFromVault (part_000:318-328), one login at a time, in   *)
(* both modes and across a failover, while the account is created on this  *)
(* device and its password is changed on another device (ProfilePage,      *)
(* part_003:32-39, through Firestore).                                     *)
(***************************************************************************)
InitVault == InitWith({"vault"})

\* A User record with the fields login reads and writes.
Account(id, username, hash) ==
    Merge(UserRec(id, username, 0),
          [passwordHash |-> hash, status |-> "offline", lastSeen |-> 0])

\* The entries vaultDb.getVault() may hold for the account: the username as
\* it was typed at a login and the hash the record had then.
VaultEntries == {[username |-> "al", passwordHash |-> "h1"],
                 [username |-> "Al", passwordHash |-> "h1"]}

\* Date.now() at login
Now == 1

\* No loginFromVault of the tab is between its awaits.
VaultIdle(c) ==
    /\ Idle(c)
    /\ ret[c].op \notin {"getUserByUsername", "updateUserStatus"}

\* `await db.<op>(arg)` on another device in REMOTE mode.
Elsewhere(op, arg) ==
    /\ RemoteCanSucceed(remote, NewCall(op, arg))
    /\ remote' = RemoteRun(remote, NewCall(op, arg)).remote
    /\ subs' = Notified(remote, remote')
    /\ UNCHANGED <<focus, apiKey, useMock, local, calls, inbox, ret, hist>>

\* loginFromVault(entry) up to `await db.getUserByUsername(entry.username)`;
\* the call in flight carries the entry the handler holds.
VaultLogin(c, entry) ==
    /\ c \in Loaded
    /\ VaultIdle(c)
    /\ DbCall(c, "getUserByUsername", entry)

\* Mutant: any record found for the username is accepted.
VaultDecideAnyHash(c) ==
    LET entry == ret[c].arg
        user  == ret[c].value
    IN  /\ c \in Loaded
        /\ Idle(c)
        /\ ret[c].op = "getUserByUsername"
        /\ IF user # None
           THEN DbCall(c, "updateUserStatus",
                       [userId |-> user[1].id,
                        updates |-> [status |-> "online", lastSeen |-> Now]])
           ELSE /\ ret' = [ret EXCEPT ![c] =
                             [Returned("loginFromVault", entry, ret[c].by, FALSE, None)
                                EXCEPT !.outcome = "refused"]]
                /\ UNCHANGED <<focus, apiKey, useMock, local, remote, calls, subs,
                               inbox, hist>>

\* loginFromVault after the first await: `if (user && user.passwordHash ===
\* entry.passwordHash) await db.updateUserStatus(...)`, otherwise setError.
VaultDecide(c) ==
    LET entry == ret[c].arg
        user  == ret[c].value
    IN  /\ c \in Loaded
        /\ Idle(c)
        /\ ret[c].op = "getUserByUsername"
        /\ IF user # None /\ user[1].passwordHash = entry.passwordHash
           THEN DbCall(c, "updateUserStatus",
                       [userId |-> user[1].id,
                        updates |-> [status |-> "online", lastSeen |-> Now]])
           ELSE /\ ret' = [ret EXCEPT ![c] =
                             [Returned("loginFromVault", entry, ret[c].by, FALSE, None)
                                EXCEPT !.outcome = "refused"]]
                /\ UNCHANGED <<focus, apiKey, useMock, local, remote, calls, subs,
                               inbox, hist>>

\* loginFromVault after the second await: onLogin({...user, status: 'online'}).
VaultSession(c) ==
    /\ c \in Loaded
    /\ Idle(c)
    /\ ret[c].op = "updateUserStatus"
    /\ ret' = [ret EXCEPT ![c] =
                 [Returned("loginFromVault", ret[c].arg, ret[c].by, FALSE, None)
                    EXCEPT !.outcome = "session"]]
    /\ UNCHANGED <<focus, apiKey, useMock, local, remote, calls, subs, inbox, hist>>

NextVault ==
    \/ VaultIdle("t1") /\ SaveUser("t1", {Account("a", "al", "h1")})
    \/ ret["t1"].op # "getUserByUsername"
          /\ Elsewhere("updateUserStatus",
                       [userId |-> "a", updates |-> [passwordHash |-> "h2"]])
    \/ \E e \in VaultEntries : VaultLogin("t1", e)
    \/ VaultDecide("t1")
    \/ VaultSession("t1")
    \/ \E k \in calls["t1"] : RemoteOk("t1", k)
    \/ \E k \in calls["t1"] : RemoteFail("t1", k)

SpecVault == InitVault /\ [][NextVault]_vars

(***************************************************************************)
(* SpecConv: tab t1 subscribes to the conversation of b with a; t1 and a   *)
(* second tab t2, in LOCAL mode, send messages of that conversation and of *)
(* two others, in both modes of t1 and across a failover.                  *)
(***************************************************************************)
InitConv == InitWith({"conv"})

\* (senderId, receiverId) of the messages sent: both directions between a
\* and b, and a conversation of each of them with a third user c.
ConvPairs == {<<"a", "b">>, <<"b", "a">>, <<"a", "c">>, <<"c", "b">>}

NextConv ==
    \/ OpenLocalTab("t2")
    \/ \E throws \in BOOLEAN : DbSubscribe("t1", "s1", "messages", "b", "a", throws)
    \/ Unsubscribe("t1", "s1")
    \/ RemoteSnapshot("t1", "s1")
    \/ RemoteListenerError("t1", "s1")
    \/ SendMessage("t1", MsgIds, ConvPairs, {1})
    \/ SendMessage("t2", MsgIds, ConvPairs, {1})
    \/ \E k \in calls["t1"] : RemoteOk("t1", k)
    \/ \E k \in calls["t1"] : RemoteFail("t1", k)
    \/ ChannelDeliver("t1")

SpecConv == InitConv /\ [][NextConv]_vars

(***************************************************************************)
(* SpecReqs: tab t1 subscribes to the incoming requests of b, sends a      *)
(* request between a and b in either direction and accepts or rejects it,  *)
(* in both modes and across a failover; a second tab t2, in LOCAL mode,    *)
(* sends a second request to b and rejects it.                             *)
(***************************************************************************)
InitReqs == InitWith({"reqs"})

NextReqs ==
    \/ OpenLocalTab("t2")
    \/ \E throws \in BOOLEAN : DbSubscribe("t1", "s1", "requests", "b", "-", throws)
    \/ Unsubscribe("t1", "s1")
    \/ RemoteSnapshot("t1", "s1")
    \/ RemoteListenerError("t1", "s1")
    \/ SendFriendRequest("t1", {"r1"}, BothWays)
    \/ HandleFriendRequest("t1", {"r1"}, Statuses)
    \/ SendFriendRequest("t2", {"r2"}, {<<"a", "b">>})
    \/ HandleFriendRequest("t2", {"r2"}, {"rejected"})
    \/ \E k \in calls["t1"] : RemoteOk("t1", k)
    \/ \E k \in calls["t1"] : RemoteFail("t1", k)
    \/ ChannelDeliver("t1")

SpecReqs == InitReqs /\ [][NextReqs]_vars

(***************************************************************************)
(* Properties                                                              *)
(***************************************************************************)
Sub(c, s) == subs[c][s]

IsOpen(sub) == sub.kind # "none" /\ ~sub.unsub

\* Call k of tab c leaves the calls in flight in this step: its promise settles.
Settles(c, k) == k \in calls[c] /\ \A k2 \in calls'[c] : k2.op # k.op \/ k2.arg # k.arg

\* C1: once a tab's mode is LOCAL (useMock = true), no step of any facade
\* call, subscription callback or failure sets it back to REMOTE.
C1_ModeIsOneWay == [][\A c \in Loaded : useMock[c] => useMock'[c]]_vars

\* A tab that started REMOTE, was demoted by a failure, and whose subscription
\* has since been served from the Local store.
C1_Witness ==
    /\ apiKey = "valid" /\ useMock["t1"] /\ hist.remoteFailed["t1"]
    /\ Sub("t1", "s1").startedRemote /\ Sub("t1", "s1").localOn
    /\ Sub("t1", "s1").delivered

\* C2: when the Firestore call of a request/response method rejects, the
\* method is run against the Local store and its promise resolves normally
\* with the Local result; the caller never sees the failure.
C2_FailureAbsorbed ==
    [][\A c \in Loaded : \A k \in calls[c] :
          (Settles(c, k) /\ IsFacadeCall(k)) =>
              /\ ret'[c].op = k.op /\ ret'[c].arg = k.arg
              /\ ret'[c].outcome = "ok"
              /\ ret'[c].failedOver =>
                    /\ useMock'[c]
                    /\ ret'[c].by = "local"
                    /\ local' = MockRun(local, k.op, k.arg).store
                    /\ ret'[c].value = MockRun(local, k.op, k.arg).value]_vars

\* A getUser whose Firestore read failed and that was answered with the
\* record an earlier failed-over saveUser had put in the Local store.
C2_Witness ==
    /\ ret["t1"].op = "getUser" /\ ret["t1"].failedOver
    /\ ret["t1"].value = Some(Alice)

\* C3: a subscription opened in REMOTE mode and still open when the tab is
\* demoted to LOCAL is given every later change of the Local store that it
\* shows: such a change is never left undelivered with no event and no
\* callback pending for the tab.
C3_OpenSubsFollowLocal ==
    \A c \in Loaded : \A s \in SubIds :
        (/\ IsOpen(Sub(c, s)) /\ Sub(c, s).handle = "remote"
         /\ useMock[c] /\ Sub(c, s).owed)
            => (inbox[c] # <<>> \/ Sub(c, s).thenQ # <<>>)

\* C4: once the function returned by db.subscribeTo<Kind> has been called,
\* no listener of the subscription is left registered and its callback is
\* not invoked again.
C4_UnsubscribeReleases ==
    \A c \in Loaded : \A s \in SubIds :
        Sub(c, s).unsub =>
            /\ ~Sub(c, s).remoteOn /\ ~Sub(c, s).localOn
            /\ ~Sub(c, s).late

\* C5: neither backend ever holds two Friendship records for the same
\* unordered pair of users.  (Firestore keys the record by the pair.)
C5_OneFriendshipPerPair ==
    /\ \A i, j \in 1..Len(local.friendships) :
          local.friendships[i].id = local.friendships[j].id => i = j
    /\ \A id \in DOMAIN remote.friendships :
          remote.friendships[id].id = id

\* C6: a message whose isRead is true in a store keeps isRead true in that
\* store in every step.
C6_IsReadMonotonic ==
    [][/\ \A i \in 1..Len(local.messages) :
             local.messages[i].isRead =>
                 /\ i <= Len(local.messages')
                 /\ local.messages'[i].id = local.messages[i].id
                 /\ local.messages'[i].isRead
       /\ \A id \in DOMAIN remote.messages :
             remote.messages[id].isRead =>
                 /\ id \in DOMAIN remote.messages'
                 /\ remote.messages'[id].isRead]_vars

\* C7: a FriendRequest that is accepted or rejected keeps its status, and a
\* step that handles such a request leaves the friendships as they were.
C7_StatusForwardOnly ==
    [][/\ \A i \in 1..Len(local.requests) :
             local.requests[i].status # "pending" =>
                 /\ local.requests'[i].status = local.requests[i].status
                 /\ (local.requests' # local.requests =>
                        local.friendships' = local.friendships)
       /\ \A id \in DOMAIN remote.requests :
             remote.requests[id].status # "pending" =>
                 remote.requests'[id].status = remote.requests[id].status]_vars

\* C8: after any failure of a Firestore call made by the facade, the tab's
\* mode is LOCAL.
C8_FailureDemotes ==
    \A c \in Loaded : hist.remoteFailed[c] => useMock[c]

\* C9: an open subscription with a live listener and nothing left pending
\* (no snapshot due, no callback queued, no handler in flight) has invoked
\* its callback at least once.
C9_FirstNotification ==
    \A c \in Loaded : \A s \in SubIds :
        (/\ IsOpen(Sub(c, s))
         /\ Sub(c, s).remoteOn \/ Sub(c, s).localOn
         /\ ~Sub(c, s).dirty /\ Sub(c, s).thenQ = <<>>
         /\ \A k \in calls[c] : k.op # "friendsSnapshot")
            => Sub(c, s).delivered

\* C10: getUser(id) returns the record of the most recent finished
\* saveUser for that id that was served by the same backend.
C10_ReadYourWrites ==
    [][\A c \in Loaded :
          (ret'[c] # ret[c] /\ ret'[c].op = "getUser") =>
              ret'[c].value = hist.lastSaved[ret'[c].by][ret'[c].arg.id]]_vars

\* getUser answered from the Local store with the second record saved for
\* "a" there, while Firestore holds another one.
C10_Witness ==
    /\ ret["t1"].op = "getUser" /\ ret["t1"].by = "local"
    /\ ret["t1"].value = Some(UserRec("a", "al", 1))
    /\ Len(local.users) = 2 /\ local.users[1].id = "a"
    /\ Exists(remote.users, "a") /\ remote.users["a"].bio = 0

\* C11: every list given to a subscribeToMessages callback is in ascending
\* order of Message.timestamp, in whatever order the messages were stored.
C11_DeliveredSorted ==
    \A c \in Loaded : \A s \in SubIds :
        (Sub(c, s).kind = "messages" /\ Sub(c, s).delivered) =>
            \A i, j \in 1..Len(Sub(c, s).last) :
                i < j => Sub(c, s).last[i].timestamp <= Sub(c, s).last[j].timestamp

\* A Local conversation subscription that was given two messages, the later
\* one stored first.
C11_Witness ==
    /\ Sub("t1", "s1").kind = "messages" /\ Sub("t1", "s1").handle = "local"
    /\ Len(Sub("t1", "s1").last) = 2
    /\ Len(local.messages) = 2
    /\ local.messages[1].timestamp > local.messages[2].timestamp
    /\ Sub("t1", "s1").last[1] = local.messages[2]

\* C12: in each backend no two User records have usernames that are equal
\* ignoring case.
C12_UsernamesUnique ==
    /\ \A i, j \in 1..Len(local.users) :
          ToLowerCase(local.users[i].username) = ToLowerCase(local.users[j].username)
              => i = j
    /\ \A x, y \in DOMAIN remote.users :
          ToLowerCase(remote.users[x].username) = ToLowerCase(remote.users[y].username)
              => x = y

\* C13: a tab on which no Firestore call has failed is in LOCAL mode exactly
\* when the API key is absent or holds the placeholder, or initializeApp /
\* getFirestore threw at module load; loading the module never fails.
C13_InitialMode ==
    \A c \in Loaded :
        ~hist.remoteFailed[c] =>
            (useMock[c] <=> (apiKey \in {"absent", "placeholder"} \/ hist.initThrew[c]))

\* A build with a valid key whose initialization threw: the tab is in LOCAL
\* mode and has served a call from the Local store.
C13_Witness ==
    /\ apiKey = "valid" /\ hist.initThrew["t1"] /\ ~hist.remoteFailed["t1"]
    /\ useMock["t1"]
    /\ ret["t1"].op = "getUser" /\ ret["t1"].by = "local" /\ ~ret["t1"].failedOver

\* C14: a Local write that changes what an open Local subscription shows
\* reaches that subscription's handler, also when the writer is the tab that
\* holds the subscription: the change is never left undelivered with no
\* event and no callback pending for the tab.
C14_WriterIsNotified ==
    \A c \in Loaded : \A s \in SubIds :
        (IsOpen(Sub(c, s)) /\ Sub(c, s).localOn /\ Sub(c, s).owed)
            => (inbox[c] # <<>> \/ Sub(c, s).thenQ # <<>>)

\* The stored User records and Friendship records of each backend.
LocalUsers        == Range(local.users)
LocalFriendships  == Range(local.friendships)
RemoteUsers       == {remote.users[id] : id \in DOMAIN remote.users}
RemoteFriendships == {remote.friendships[id] : id \in DOMAIN remote.friendships}

\* The users that are the other member of a friendship of x.
FriendsOf(users, friendships, x) ==
    {u \in users : \E f \in friendships :
        \/ f.user1Id = x /\ f.user2Id = u.id
        \/ f.user2Id = x /\ f.user1Id = u.id}

\* Subscription s of tab c is given a list in this step (its first, or one
\* that differs from the last).
GivenList(c, s) ==
    /\ Sub(c, s)' # Sub(c, s)
    /\ Sub(c, s)'.delivered
    /\ ~Sub(c, s).delivered \/ Sub(c, s)'.last # Sub(c, s).last

\* C15: the list a friends subscription for x is given holds exactly the
\* stored User records whose id is the other member of a Friendship that has
\* x in either member slot, each once.  (A Firestore handler finishing is the
\* step that ends its call in flight; every other delivery is a Local one.)
C15_FriendsSymmetric ==
    [][\A c \in Loaded : \A s \in SubIds :
          (Sub(c, s).kind = "friends" /\ GivenList(c, s)) =>
              LET got  == Sub(c, s)'.last
                  want == IF calls'[c] # calls[c]
                          THEN FriendsOf(RemoteUsers, RemoteFriendships, Sub(c, s).userId)
                          ELSE FriendsOf(LocalUsers, LocalFriendships, Sub(c, s).userId)
              IN  Range(got) = want /\ Len(got) = Cardinality(want)]_vars

\* A Local friends subscription for "a" that was given Bob on the strength
\* of a friendship that has "a" in the second member slot.
C15_Witness ==
    /\ Sub("t1", "s1").kind = "friends" /\ Sub("t1", "s1").handle = "local"
    /\ Sub("t1", "s1").last = <<Bob>>
    /\ Len(local.friendships) = 1
    /\ local.friendships[1].user1Id = "b" /\ local.friendships[1].user2Id = "a"

\* C16: an open friends subscription served by Firestore, with no snapshot
\* due and no handler in flight, shows the current User record of every
\* friend it lists.
C16_RemoteFriendsFresh ==
    \A c \in Loaded : \A s \in SubIds :
        (/\ Sub(c, s).kind = "friends" /\ Sub(c, s).remoteOn /\ ~useMock[c]
         /\ Sub(c, s).delivered /\ ~Sub(c, s).dirty
         /\ \A k \in calls[c] : k.op # "friendsSnapshot")
            => \A u \in Range(Sub(c, s).last) : u \in RemoteUsers

\* C17: for the list its messages subscription was last given, the chat
\* screen's callback made exactly one markMessagesAsRead(viewer, sender) call
\* when the list holds an unread message addressed to the viewer, however
\* many it holds, and no call otherwise.
C17_OneMarkPerDelivery ==
    \A c \in Loaded : \A s \in SubIds :
        (focus = "chatui" /\ Sub(c, s).kind = "messages" /\ Sub(c, s).delivered) =>
            LET got    == Sub(c, s).last
                unread == {i \in 1..Len(got) :
                             got[i].receiverId = Sub(c, s).userId /\ ~got[i].isRead}
            IN  IF unread # {}
                THEN Sub(c, s).issued =
                        <<NewCall("markMessagesAsRead",
                                  [userId |-> Sub(c, s).userId,
                                   senderId |-> Sub(c, s).friendId])>>
                ELSE Sub(c, s).issued = <<>>

\* A snapshot with two unread messages for the viewer was delivered and the
\* one markMessagesAsRead call it caused is awaiting Firestore.
C17_Witness ==
    /\ focus = "chatui" /\ Sub("t1", "s1").remoteOn
    /\ Len(Sub("t1", "s1").last) = 2
    /\ \A i \in 1..2 : /\ Sub("t1", "s1").last[i].receiverId = "b"
                        /\ ~Sub("t1", "s1").last[i].isRead
    /\ Len(Sub("t1", "s1").issued) = 1
    /\ calls["t1"] = {NewCall("markMessagesAsRead", [userId |-> "b", senderId |-> "a"])}

\* C18: the step in which a subscription's unsubscribe handle is called,
\* before or after a failover, leaves no listener of the subscription
\* registered and changes nothing else.  (A further call of the handle
\* changes nothing at all.)
C18_UnsubscribeAnyTime ==
    [][\A c \in Loaded : \A s \in SubIds :
          (Sub(c, s)'.unsub /\ ~Sub(c, s).unsub) =>
              /\ ~Sub(c, s)'.remoteOn /\ ~Sub(c, s)'.localOn
              /\ UNCHANGED <<useMock, local, remote, calls, inbox>>]_vars

\* Record u2 is record u with the fields of `updates` set and every other
\* field as it was.
Patched(u, u2, updates) ==
    /\ DOMAIN u2 = (DOMAIN u) \cup (DOMAIN updates)
    /\ \A f \in DOMAIN u2 :
          u2[f] = IF f \in DOMAIN updates THEN updates[f] ELSE u[f]

\* C19: the step that completes updateUserStatus(userId, updates) changes, in
\* the backend that served it, only the User record with that id, setting
\* the fields named in updates and keeping its other fields; every other
\* user record, every other collection and the other backend stay as they
\* were.
C19_MergePatch ==
    [][\A c \in Loaded :
          (ret'[c] # ret[c] /\ ret'[c].op = "updateUserStatus") =>
              LET id  == ret'[c].arg.userId
                  upd == ret'[c].arg.updates
              IN  /\ local' = [local EXCEPT !.users = local'.users]
                  /\ remote' = [remote EXCEPT !.users = remote'.users]
                  /\ IF ret'[c].by = "local"
                     THEN /\ remote' = remote
                          /\ Len(local'.users) = Len(local.users)
                          /\ \A i \in 1..Len(local.users) :
                                IF local.users[i].id = id
                                THEN Patched(local.users[i], local'.users[i], upd)
                                ELSE local'.users[i] = local.users[i]
                     ELSE /\ local' = local
                          /\ DOMAIN remote'.users = DOMAIN remote.users
                          /\ id \in DOMAIN remote.users
                          /\ \A x \in DOMAIN remote.users :
                                IF x = id
                                THEN Patched(remote.users[x], remote'.users[x], upd)
                                ELSE remote'.users[x] = remote.users[x]]_vars

\* Alice's bio was patched in Firestore after her typingTo had been: both
\* values are there, and Bob's record is as it was saved.
C19_Witness ==
    /\ ret["t1"].op = "updateUserStatus" /\ ret["t1"].by = "remote"
    /\ ret["t1"].arg = [userId |-> "a", updates |-> [bio |-> 1]]
    /\ DOMAIN remote.users = UserIds
    /\ remote.users["a"] = [Alice EXCEPT !.bio = 1, !.typingTo = "b"]
    /\ remote.users["b"] = Bob

\* C20: after the same calls, awaited one by one with no Firestore failure,
\* the call just made has returned the same value in the LOCAL tab and in
\* the REMOTE tab.
C20_SameResults ==
    focus = "twin" => ret["t1"].value = ret["t2"].value

\* The stored FriendRequest records of each backend.
LocalRequests  == Range(local.requests)
RemoteRequests == {remote.requests[id] : id \in DOMAIN remote.requests}

\* Tab c's promise of a call of method op resolves in this step.
Returns(c, op) ==
    /\ ret'[c].op = op
    /\ \/ ret'[c] # ret[c]
       \/ \E k \in calls[c] : k.op = op /\ k.arg = ret'[c].arg /\ Settles(c, k)

\* C21: a getUser / getUserByUsername whose id / username no record of the
\* serving backend has resolves with null, and a handleFriendRequest whose
\* request id the serving backend does not have resolves leaving requests
\* and friendships of both backends as they were; unless Firestore itself
\* failed, the tab's mode is as it was.
C21_AbsenceIsNotAnError ==
    [][\A c \in Loaded :
          LET r       == ret'[c]
              users   == IF r.by = "local" THEN LocalUsers ELSE RemoteUsers
              reqs    == IF r.by = "local" THEN LocalRequests ELSE RemoteRequests
              Same(n) == IF r.by = "local" THEN ToLowerCase(n) = ToLowerCase(r.arg.username)
                         ELSE n = r.arg.username
          IN  /\ (Returns(c, "getUser") /\ \A u \in users : u.id # r.arg.id) =>
                    /\ r.outcome = "ok" /\ r.value = None
                    /\ ~r.failedOver => useMock' = useMock
              /\ (Returns(c, "getUserByUsername") /\ \A u \in users : ~Same(u.username)) =>
                    /\ r.outcome = "ok" /\ r.value = None
                    /\ ~r.failedOver => useMock' = useMock
              /\ (Returns(c, "handleFriendRequest")
                     /\ \A q \in reqs : q.id # r.arg.requestId) =>
                    /\ r.outcome = "ok"
                    /\ local'.requests = local.requests
                    /\ local'.friendships = local.friendships
                    /\ remote'.requests = remote.requests
                    /\ remote'.friendships = remote.friendships
                    /\ ~r.failedOver => useMock' = useMock]_vars

\* In REMOTE mode, accepting a request Firestore does not have has returned:
\* the tab is still in REMOTE mode and Firestore holds no request and no
\* friendship.
C21_Witness ==
    /\ ret["t1"].op = "handleFriendRequest" /\ ret["t1"].by = "remote"
    /\ ret["t1"].arg.status = "accepted"
    /\ ~useMock["t1"] /\ ~hist.remoteFailed["t1"]
    /\ remote.requests = <<>> /\ remote.friendships = <<>>

\* C22: when a tab dispatches the event of a put to a listener that re-reads
\* the collection, the list the listener's callback is given holds every
\* message of the array that put stored, marked read where the put had it
\* marked: the put's array was stored before its event was emitted.
C22_StoredBeforeNotified ==
    [][\A c \in Loaded :
          (/\ focus = "put" /\ inbox[c] # <<>> /\ inbox'[c] = Tail(inbox[c])
           /\ Sub(c, "s1").localOn /\ HandlerReads(Sub(c, "s1"), Head(inbox[c]))) =>
              LET n   == Len(hist.puts[c]) - Len(inbox[c]) + 1
                  put == hist.puts[c][n]
                  got == Sub(c, "s1")'.last
              IN  \A i \in 1..Len(put) : \E j \in 1..Len(got) :
                      /\ got[j].id = put[i].id
                      /\ put[i].isRead => got[j].isRead]_vars

\* t1 was given both messages, the first one marked read, on dispatching an
\* event of t2 while t2 has no method running.
C22_Witness ==
    /\ focus = "put" /\ Sub("t1", "s1").localOn
    /\ Len(Sub("t1", "s1").last) = 2
    /\ Sub("t1", "s1").last[1].isRead /\ ~Sub("t1", "s1").last[2].isRead
    /\ Len(hist.puts["t1"]) >= 2
    /\ calls["t2"] = {}

\* C23: when a markMessagesAsRead or a typing-status updateUserStatus call
\* finishes right after the same call was finished by the same backend, the
\* step that finishes it leaves that backend's store as it was.
C23_RepeatChangesNothing ==
    [][\A c \in Loaded :
          (/\ focus = "idem" /\ hist'.streak[c] = 2
           /\ ret'[c].op \in {"markMessagesAsRead", "updateUserStatus"}) =>
              /\ ret'[c].by = "local" => local' = local
              /\ (/\ ret'[c].by = "remote"
                  /\ \E k \in calls[c] :
                        k.op = ret'[c].op /\ k.arg = ret'[c].arg /\ Settles(c, k))
                    => remote' = remote]_vars

\* Firestore has served markMessagesAsRead("b", "a") twice in a row and the
\* message is marked read.
C23_Witness ==
    /\ focus = "idem" /\ hist.streak["t1"] = 2
    /\ ret["t1"].op = "markMessagesAsRead" /\ ret["t1"].by = "remote"
    /\ Exists(remote.messages, "m1") /\ remote.messages["m1"].isRead

\* C24: with two tabs running read-modify-write methods on mock_messages at
\* the same time, every step that changes the stored array makes it exactly
\* the array one finishing method computed from what that method had read,
\* whatever the other tab stored in between.
C24_LastPutWins ==
    [][(focus = "race" /\ local'.messages # local.messages) =>
          \E c \in Loaded : \E k \in calls[c] :
              /\ k \notin calls'[c]
              /\ local'.messages =
                    MockRun([local EXCEPT !.messages = k.tmp], k.op, k.arg).store.messages
              /\ local' = [local EXCEPT !.messages = local'.messages]]_vars

\* Both tabs have written mock_messages and no method is running, yet the
\* array holds a single unread message: one tab's write is gone.
C24_Witness ==
    /\ focus = "race" /\ calls["t1"] = {} /\ calls["t2"] = {}
    /\ inbox["t1"] # <<>> /\ inbox["t2"] # <<>>
    /\ Len(local.messages) = 1 /\ ~local.messages[1].isRead

\* C25: in both backends the id of every Friendship is its two member ids
\* in sorted order joined by '_' (in Firestore the document is stored under
\* that id), so the id does not depend on which member sent the request.
C25_FriendshipKey ==
    \A f \in LocalFriendships \cup RemoteFriendships :
        /\ \E lo, hi \in UserIds :
              /\ {lo, hi} = {f.user1Id, f.user2Id}
              /\ Rank(lo) <= Rank(hi)
              /\ f.id = lo \o "_" \o hi
        /\ f \in RemoteFriendships =>
              \E d \in DOMAIN remote.friendships : d = f.id /\ remote.friendships[d] = f

\* Firestore holds the friendship of a request from "b" to "a" under "a_b".
C25_Witness ==
    /\ DOMAIN remote.friendships = {"a_b"}
    /\ remote.friendships["a_b"].user1Id = "b"
    /\ remote.friendships["a_b"].user2Id = "a"

\* C26: a step in which a tab goes from REMOTE to LOCAL mode leaves
\* Firestore and every other tab's mode as they were, and changes the Local
\* store only by what the retried method does to the Local store as it was:
\* nothing is copied from Firestore, rolled back or deleted.
C26_DemotionOnlyFlips ==
    [][\A c \in Loaded :
          (~useMock[c] /\ useMock'[c]) =>
              /\ remote' = remote
              /\ \A o \in Loaded \ {c} : useMock'[o] = useMock[o]
              /\ \/ local' = local
                 \/ \E k \in calls[c] :
                       /\ Settles(c, k)
                       /\ local' = MockRun(local, k.op, k.arg).store]_vars

\* The tab was demoted while Firestore held Alice's record: Firestore still
\* has it and the Local store has no user.
C26_Witness ==
    /\ apiKey = "valid" /\ useMock["t1"] /\ hist.remoteFailed["t1"]
    /\ ~hist.initThrew["t1"]
    /\ Exists(remote.users, "a") /\ local.users = <<>>

\* The User fields the application updates after registration
ProfileFields == {"username", "bio", "typingTo"}

\* Record r2 is record r but for the fields in `mutable`.
SameBut(r, r2, mutable) ==
    /\ DOMAIN r2 = DOMAIN r
    /\ \A f \in DOMAIN r \ mutable : r2[f] = r[f]

\* Every record of array arr is at its place in arr2, changed at most in
\* the fields in `mutable`.
KeptInArray(arr, arr2, mutable) ==
    /\ Len(arr) <= Len(arr2)
    /\ \A i \in 1..Len(arr) : SameBut(arr[i], arr2[i], mutable)

\* Every document of collection coll is in coll2, changed at most in the
\* fields in `mutable`.
KeptInDocs(coll, coll2, mutable) ==
    \A id \in DOMAIN coll :
        id \in DOMAIN coll2 /\ SameBut(coll[id], coll2[id], mutable)

\* C27: no step removes a User, Message, FriendRequest or Friendship record
\* from either backend; of a stored Message only isRead changes, of a
\* FriendRequest only status, of a Friendship nothing, and a User keeps its
\* id.
C27_AppendMostly ==
    [][/\ KeptInArray(local.users, local'.users, ProfileFields)
       /\ KeptInArray(local.messages, local'.messages, {"isRead"})
       /\ KeptInArray(local.requests, local'.requests, {"status"})
       /\ KeptInArray(local.friendships, local'.friendships, {})
       /\ KeptInDocs(remote.users, remote'.users, ProfileFields)
       /\ KeptInDocs(remote.messages, remote'.messages, {"isRead"})
       /\ KeptInDocs(remote.requests, remote'.requests, {"status"})
       /\ KeptInDocs(remote.friendships, remote'.friendships, {})]_vars

\* C28: when loginFromVault decides, and the backend that answered has no
\* record of the entry's username whose passwordHash is the entry's, the
\* login is refused: no call is made, no store changes and no session is
\* started; a session is started only by a login that passed the check and
\* updated the status.
C28_StaleVaultRefused ==
    [][\A c \in Loaded :
          /\ (/\ focus = "vault" /\ ret[c].op = "getUserByUsername" /\ calls[c] = {}
              /\ ret'[c] # ret[c] \/ calls'[c] # calls[c]) =>
                LET entry == ret[c].arg
                    users == IF ret[c].by = "local" THEN LocalUsers ELSE RemoteUsers
                    Same(n) == IF ret[c].by = "local"
                               THEN ToLowerCase(n) = ToLowerCase(entry.username)
                               ELSE n = entry.username
                IN  (\A u \in users :
                        ~(Same(u.username) /\ u.passwordHash = entry.passwordHash)) =>
                        /\ ret'[c].op = "loginFromVault" /\ ret'[c].outcome = "refused"
                        /\ calls'[c] = {}
                        /\ local' = local /\ remote' = remote
          /\ (focus = "vault" /\ ret'[c].outcome = "session" /\ ret[c].outcome # "session")
                => ret[c].op = "updateUserStatus"]_vars

\* In REMOTE mode a login with the entry cached before the password was
\* changed elsewhere has been refused, and the account is still offline.
C28_Witness ==
    /\ focus = "vault" /\ ~useMock["t1"]
    /\ ret["t1"].op = "loginFromVault" /\ ret["t1"].outcome = "refused"
    /\ ret["t1"].by = "remote" /\ ret["t1"].arg.passwordHash = "h1"
    /\ Exists(remote.users, "a") /\ remote.users["a"].passwordHash = "h2"
    /\ remote.users["a"].status = "offline"

\* C29: when handleFriendRequest(requestId, 'accepted') finishes for a
\* request held by the backend that was active when it was called, the
\* backend active at that moment holds a Friendship of the request's two
\* users, also when the Firestore call failed and was retried on Local.
C29_AcceptedHasFriendship ==
    [][\A c \in Loaded :
          LET HasPair(fs, req) ==
                  \E f \in fs : {f.user1Id, f.user2Id} = {req.fromId, req.toId}
              active == IF useMock'[c] THEN Range(local'.friendships)
                        ELSE {remote'.friendships[d] : d \in DOMAIN remote'.friendships}
          IN  /\ \A k \in calls[c] :
                    (/\ k.op = "handleFriendRequest" /\ k.arg.status = "accepted"
                     /\ Settles(c, k)
                     /\ k.pc >= 1) =>      \* getDoc found the request, k.tmp
                        HasPair(active, k.tmp)
              /\ \A q \in LocalRequests :
                    (/\ useMock[c] /\ ret'[c] # ret[c]
                     /\ ret'[c].op = "handleFriendRequest"
                     /\ ret'[c].by = "local" /\ ~ret'[c].failedOver
                     /\ ret'[c].arg = [requestId |-> q.id, status |-> "accepted"]) =>
                        HasPair(active, q)]_vars

Listeners(sub) == (IF sub.remoteOn THEN 1 ELSE 0) + (IF sub.localOn THEN 1 ELSE 0)

\* C31: a subscription never has both its Firestore snapshot listener and
\* a Local channel handler registered, before, during or after a failover,
\* so no store change reaches its callback through two listeners.
C31_OneListener ==
    \A c \in Loaded : \A s \in SubIds : Listeners(Sub(c, s)) <= 1

\* An open subscription that began on Firestore, lost its listener to an
\* error and has been given a Local read by the channel handler since.
C31_Witness ==
    /\ IsOpen(Sub("t1", "s1")) /\ Sub("t1", "s1").startedRemote
    /\ Sub("t1", "s1").handle = "remote"
    /\ hist.remoteFailed["t1"] /\ useMock["t1"]
    /\ Sub("t1", "s1").localOn /\ ~Sub("t1", "s1").remoteOn
    /\ Sub("t1", "s1").delivered /\ Sub("t1", "s1").last # <<>>

\* C32: no step of a handleFriendRequest(requestId, 'rejected') call, made
\* against Firestore, against the Local store or retried on the Local store
\* after a failure, changes the friendships of either backend.
C32_RejectCreatesNothing ==
    [][\A c \in Loaded :
          (\/ \E k \in calls[c] :
                  /\ k.op = "handleFriendRequest" /\ k.arg.status = "rejected"
                  /\ k \notin calls'[c]
           \/ /\ useMock[c] /\ ret'[c] # ret[c]
              /\ ret'[c].op = "handleFriendRequest"
              /\ ret'[c].arg.status = "rejected")
          => /\ local'.friendships = local.friendships
             /\ remote'.friendships = remote.friendships]_vars

\* A stored pending request has been rejected on Firestore: its status is
\* 'rejected' and there is no friendship.
C32_Witness ==
    /\ ret["t1"].op = "handleFriendRequest" /\ ret["t1"].arg.status = "rejected"
    /\ ret["t1"].by = "remote"
    /\ Exists(remote.requests, "r1") /\ remote.requests["r1"].status = "rejected"
    /\ remote.friendships = <<>> /\ local.friendships = <<>>

\* Subscription s of tab c is given a Local read in this step: by the first
\* refresh() of a mockDb subscription, or by its channel handler.
LocalDelivery(c, s) ==
    /\ subs'[c][s].localOn
    /\ \/ ~subs[c][s].localOn
       \/ /\ inbox[c] # <<>> /\ inbox'[c] = Tail(inbox[c])
          /\ HandlerReads(subs[c][s], Head(inbox[c]))

\* The onSnapshot listener of subscription s of tab c is given a snapshot in
\* this step.
RemoteDelivery(c, s) ==
    /\ subs[c][s].remoteOn /\ subs[c][s].dirty
    /\ subs'[c][s].remoteOn /\ ~subs'[c][s].dirty

\* list holds each record of `stored` that satisfies Wanted once, and
\* nothing else.
Exactly(list, stored, Wanted(_)) ==
    /\ Range(list) = {x \in stored : Wanted(x)}
    /\ \A i, j \in 1..Len(list) : list[i] = list[j] => i = j

\* C33: the list a subscribeToMessages(userId, friendId) callback is given
\* holds exactly the messages of the backend that serves the listener whose
\* sender and receiver are userId and friendId, in either direction.
C33_ConversationOnly ==
    [][\A c \in Loaded : \A s \in SubIds :
          LET sub == subs'[c][s]
              Mine(m) == \/ m.senderId = sub.userId /\ m.receiverId = sub.friendId
                         \/ m.senderId = sub.friendId /\ m.receiverId = sub.userId
          IN  sub.kind = "messages" =>
                /\ LocalDelivery(c, s) =>
                      Exactly(sub.last, Range(local.messages), Mine)
                /\ RemoteDelivery(c, s) =>
                      Exactly(sub.last,
                              {remote.messages[d] : d \in DOMAIN remote.messages},
                              Mine)]_vars

\* The store holds a message of the conversation and a message b received
\* from a third user, and the open subscription was given the first only.
C33_Witness ==
    /\ focus = "conv" /\ IsOpen(Sub("t1", "s1")) /\ Sub("t1", "s1").delivered
    /\ Len(Sub("t1", "s1").last) = 1
    /\ Sub("t1", "s1").last[1].senderId = "a"
    /\ \/ /\ Sub("t1", "s1").remoteOn /\ ~Sub("t1", "s1").dirty
          /\ Cardinality(DOMAIN remote.messages) = 2
          /\ \E d \in DOMAIN remote.messages : remote.messages[d].senderId = "c"
       \/ /\ Sub("t1", "s1").localOn /\ ~Sub("t1", "s1").owed
          /\ inbox["t1"] = <<>>
          /\ Len(local.messages) = 2
          /\ \E i \in 1..2 : local.messages[i].senderId = "c"

\* C34: the list a subscribeToIncomingRequests(userId) callback is given
\* holds exactly the requests of the backend that serves the listener with
\* toId = userId and status 'pending'; so a delivery made after a request
\* was accepted or rejected there does not hold that request.
C34_PendingForMe ==
    [][\A c \in Loaded : \A s \in SubIds :
          LET sub == subs'[c][s]
              Pending(r) == r.toId = sub.userId /\ r.status = "pending"
          IN  sub.kind = "requests" =>
                /\ LocalDelivery(c, s) =>
                      Exactly(sub.last, Range(local.requests), Pending)
                /\ RemoteDelivery(c, s) =>
                      Exactly(sub.last,
                              {remote.requests[d] : d \in DOMAIN remote.requests},
                              Pending)]_vars

\* Two requests to b are stored in localStorage, one accepted or rejected
\* since, and the channel handler of the open subscription gave the callback
\* the one that is still pending.
C34_Witness ==
    /\ focus = "reqs" /\ IsOpen(Sub("t1", "s1"))
    /\ Sub("t1", "s1").localOn /\ ~Sub("t1", "s1").owed /\ inbox["t1"] = <<>>
    /\ Len(local.requests) = 2
    /\ \A i \in 1..2 : local.requests[i].toId = "b"
    /\ \E i \in 1..2 : local.requests[i].status # "pending"
    /\ Len(Sub("t1", "s1").last) = 1 /\ Sub("t1", "s1").last[1].status = "pending"

\* C35: updateUserStatus for a user id of which the backend the call runs
\* against has no record creates no User record; made in LOCAL mode it
\* stores nothing and posts no event; made in REMOTE mode it leaves the
\* tab's mode as it was.
C35_MissingUserIsNoOp ==
    [][\A c \in Loaded :
          /\ (/\ useMock[c] /\ ret'[c] # ret[c]
              /\ ret'[c].op = "updateUserStatus" /\ ret'[c].by = "local"
              /\ ~ret'[c].failedOver
              /\ MockGetUser(local, ret'[c].arg.userId) = None)
                => local' = local /\ inbox' = inbox /\ remote' = remote
          /\ \A k \in calls[c] :
                (/\ k.op = "updateUserStatus" /\ Settles(c, k)
                 /\ ~Exists(remote.users, k.arg.userId))
                   => /\ ~Exists(remote'.users, k.arg.userId)
                      /\ Len(local'.users) = Len(local.users)
                      /\ useMock'[c] = useMock[c]]_vars

====
